---- MODULE Spec2Model ----
(***************************************************************************)
(* A model of colossalai/moe/_operation.py: the differentiable collective  *)
(* primitives, the hierarchical all-to-all, token dispatch/combine, the    *)
(* gradient scalers and the tensor-parallel gather/drop of tokens.         *)
(*                                                                         *)
(* Every rank is a process with a program counter pc[r].  A collective of  *)
(* torch.distributed is a mailbox per (group, sequence number): a rank     *)
(* enters a collective by posting its contribution and leaves it when the  *)
(* contributions it needs are there.  Tensors are sequences of rows.       *)
(***************************************************************************)
EXTENDS Integers, Sequences, FiniteSets, TLC

VARIABLES
    op,         \* the call under study and its arguments (fixed by Init)
    pc,         \* pc[r]: where rank r is in its program
    x,          \* x[r]: the tensor the caller of rank r passes in
    ret,        \* ret[r]: the tensors returned to rank r's caller, in order
    ctx,        \* ctx[r]: the autograd contexts of rank r's apply() calls, in order
    loc,        \* loc[r]: the local variables of the call rank r is in
    net,        \* net[gid]: the collectives of group gid, each a mailbox per member
    seqno,      \* seqno[r][gid]: how many collectives rank r has entered on group gid
    issued,     \* issued[r]: the collectives rank r has entered and the kernel
                \* operations it has invoked, in order
    err,        \* err[r]: "none", or the exception that ended rank r's program
    handle,     \* handle[r]: "None", or the state of the async work handle returned
    MOE_KERNEL, \* the module global: "None" or "kernel"
    loads       \* how many times load_moe() has run

vars == <<op, pc, x, ret, ctx, loc, net, seqno, issued, err, handle, MOE_KERNEL, loads>>

----------------------------------------------------------------------------
(* Bounds of the model. *)

MaxWorld == 3
MaxChunk == 2
MaxLen == 2
MaxVal == 1

----------------------------------------------------------------------------
(* Tensors: a sequence of rows (dim 0).  torch helpers, as torch computes them. *)

Last(s) == s[Len(s)]

RECURSIVE Cat(_)
Cat(ts) == IF ts = <<>> THEN <<>> ELSE Head(ts) \o Cat(Tail(ts))

RECURSIVE SumSeq(_)
SumSeq(s) == IF s = <<>> THEN 0 ELSE Head(s) + SumSeq(Tail(s))

CeilDiv(a, b) == (a + b - 1) \div b

\* torch.chunk(t, n, dim=0): chunks of ceil(len/n) rows, the last one shorter,
\* and fewer than n chunks when the rows run out.
Chunk(t, n) ==
    LET size == CeilDiv(Len(t), n)
        cnt  == IF size = 0 THEN n ELSE CeilDiv(Len(t), size)
    IN [i \in 1..cnt |->
          SubSeq(t, (i - 1) * size + 1,
                 IF i * size < Len(t) THEN i * size ELSE Len(t))]

\* Tensor.unsqueeze(0) and Tensor.squeeze(0)
Unsqueeze0(t) == <<t>>
Squeeze0(t) == IF Len(t) = 1 THEN t[1] ELSE t

Min(a, b) == IF a < b THEN a ELSE b

\* the split of a tensor's rows by a list of sizes (all_to_all_single's
\* input_split_sizes), as far as the tensor has rows
SplitBySizes(t, sizes) ==
    [i \in 1..Len(sizes) |->
        SubSeq(t, SumSeq(SubSeq(sizes, 1, i - 1)) + 1,
               Min(SumSeq(SubSeq(sizes, 1, i)), Len(t)))]

----------------------------------------------------------------------------
(* Process groups and the mailboxes of torch.distributed. *)

NoGroup == [id |-> -1, ranks |-> <<>>]
NoMsg == [kind |-> "none"]

get_world_size(group) == Len(group.ranks)
MemberIdx(group, r) == CHOOSE i \in 1..Len(group.ranks) : group.ranks[i] = r
IsMember(group, r) == \E i \in 1..Len(group.ranks) : group.ranks[i] = r

\* the mailbox of the k-th collective of a group, created by the first to enter
Slot(netv, group, k) ==
    IF Len(netv[group.id]) >= k THEN netv[group.id][k]
    ELSE [i \in 1..get_world_size(group) |-> NoMsg]

Post(netv, group, k, r, msg) ==
    LET q  == netv[group.id]
        q2 == IF Len(q) >= k THEN q ELSE Append(q, Slot(netv, group, k))
    IN [netv EXCEPT ![group.id] = [q2 EXCEPT ![k][MemberIdx(group, r)] = msg]]

\* every member of the group has entered its k-th collective, and it is `kind`
Joined(netv, group, k, kind) ==
    /\ Len(netv[group.id]) >= k
    /\ \A i \in 1..get_world_size(group) : netv[group.id][k][i].kind = kind

\* rank r enters its next collective on `group`
Enter(r, group, kind, msg) ==
    /\ net' = Post(net, group, seqno[r][group.id] + 1, r, msg)
    /\ seqno' = [seqno EXCEPT ![r][group.id] = @ + 1]
    /\ issued' = [issued EXCEPT ![r] = Append(@, <<kind, group.id>>)]

\* what dist.all_to_all_single leaves in member r's output buffer: the part each
\* member sent to r, in member order
AllToAllRecv(netv, group, k, r) ==
    Cat([i \in 1..get_world_size(group) |->
            netv[group.id][k][i].parts[MemberIdx(group, r)]])

\* a row of torch.empty that nothing wrote
Uninit == <<-1, 0>>

\* an output buffer of `rows` rows after the received rows were written to it
FillBuffer(rows, data) ==
    [i \in 1..rows |-> IF i <= Len(data) THEN data[i] ELSE Uninit]

\* what dist.all_gather leaves in the buffer list: every member's tensor
AllGatherRecv(netv, group, k) ==
    [i \in 1..get_world_size(group) |-> netv[group.id][k][i].data]

\* elementwise sum of a non-empty sequence of equal-length integer vectors
RECURSIVE VecSum(_)
VecSum(vs) ==
    IF Len(vs) = 1 THEN vs[1]
    ELSE LET rest == VecSum(Tail(vs))
         IN [j \in 1..Len(vs[1]) |-> vs[1][j] + rest[j]]

\* what dist.reduce_scatter leaves in member r's output: the sum over the
\* members of the buffer each contributed at r's index; a buffer is a chunk of
\* shape (1, n) and the output has shape (n)
ReduceScatterRecv(netv, group, k, r) ==
    VecSum([i \in 1..get_world_size(group) |->
              Cat(netv[group.id][k][i].parts[MemberIdx(group, r)])])

----------------------------------------------------------------------------
(* The parts of a step that every action of a call shares. *)

Return(r, value, nxt) ==
    /\ ret' = [ret EXCEPT ![r] = Append(@, value)]
    /\ pc' = [pc EXCEPT ![r] = nxt]

\* the dist call that hands out no work handle
InCollective_NoHandle(r, name, group, overlap, nxt, aux) ==
    /\ pc' = [pc EXCEPT ![r] = name]
    /\ loc' = [loc EXCEPT ![r] = [group |-> group, k |-> seqno[r][group.id] + 1,
                                  nxt |-> nxt, overlap |-> overlap, aux |-> aux]]
    /\ handle' = [handle EXCEPT ![r] = "None"]

\* the dist call.  Blocking: the rank stays in it until the collective is done.
\* With async_op=True it returns a pending work handle at once, the call that
\* made it returns (outputs, handle), and the rank stays at the collective until
\* its caller's handle.wait() is over.
\* (aux: the rows of the output buffer, or the dim of a later torch.cat)
InCollective(r, name, group, overlap, nxt, aux) ==
    /\ pc' = [pc EXCEPT ![r] = name]
    /\ loc' = [loc EXCEPT ![r] = [group |-> group, k |-> seqno[r][group.id] + 1,
                                  nxt |-> nxt, overlap |-> overlap, aux |-> aux]]
    /\ handle' = [handle EXCEPT ![r] = IF overlap THEN "pending" ELSE "None"]

\* torch.empty_like: as many rows, nothing written yet
EmptyLike(t) == [i \in 1..Len(t) |-> Uninit]

\* with overlap the call returns its output buffer before the collective has
\* written it
ReturnBuffer(r, overlap, outputs) ==
    ret' = IF overlap THEN [ret EXCEPT ![r] = Append(@, outputs)] ELSE ret

\* the blocking call returns its outputs; or the handle completes, and the
\* buffer already returned holds them
LeaveCollective(r, value) ==
    /\ ret' = IF loc[r].overlap THEN [ret EXCEPT ![r][Len(ret[r])] = value]
              ELSE [ret EXCEPT ![r] = Append(@, value)]
    /\ pc' = [pc EXCEPT ![r] = loc[r].nxt]
    /\ handle' = [handle EXCEPT ![r] = IF loc[r].overlap THEN "completed" ELSE "None"]
    /\ UNCHANGED <<op, x, ctx, loc, net, seqno, issued, err, MOE_KERNEL, loads>>

SaveCtx(r, hasCtx, c) ==
    ctx' = IF hasCtx THEN [ctx EXCEPT ![r] = Append(@, c)] ELSE ctx

----------------------------------------------------------------------------
(* AllGather, ReduceScatter, AllToAll *)

AllGather_forward(r, hasCtx, inputs, group, overlap, nxt) ==
    /\ hasCtx \/ ~overlap
    /\ SaveCtx(r, hasCtx, [comm_grp |-> group])
    /\ IF get_world_size(group) = 1
         THEN /\ Return(r, Unsqueeze0(inputs), nxt)
              /\ handle' = [handle EXCEPT ![r] = "None"]
              /\ UNCHANGED <<loc, net, seqno, issued>>
         ELSE /\ Enter(r, group, "all_gather", [kind |-> "all_gather", data |-> inputs])
              /\ InCollective(r, "dist.all_gather", group, overlap, nxt, 0)
              /\ ReturnBuffer(r, overlap,
                              [i \in 1..get_world_size(group) |-> EmptyLike(inputs)])
    /\ UNCHANGED <<op, x, err, MOE_KERNEL, loads>>

\* ReduceScatter.forward that keeps the rank's own chunk and reduces nothing
ReduceScatter_forward_NoReduce(r, hasCtx, inputs, group, overlap, nxt) ==
    /\ hasCtx \/ ~overlap
    /\ SaveCtx(r, hasCtx, [comm_grp |-> group])
    /\ Return(r, inputs[MemberIdx(group, r)], nxt)
    /\ handle' = [handle EXCEPT ![r] = "None"]
    /\ UNCHANGED <<loc, net, seqno, issued>>
    /\ UNCHANGED <<op, x, err, MOE_KERNEL, loads>>

ReduceScatter_forward(r, hasCtx, inputs, group, overlap, nxt) ==
    /\ hasCtx \/ ~overlap
    /\ SaveCtx(r, hasCtx, [comm_grp |-> group])
    /\ IF get_world_size(group) = 1
         THEN /\ Return(r, Squeeze0(inputs), nxt)
              /\ handle' = [handle EXCEPT ![r] = "None"]
              /\ UNCHANGED <<loc, net, seqno, issued>>
         ELSE /\ Enter(r, group, "reduce_scatter",
                       [kind |-> "reduce_scatter",
                        parts |-> Chunk(inputs, get_world_size(group))])
              /\ InCollective(r, "dist.reduce_scatter", group, overlap, nxt, 0)
              /\ ReturnBuffer(r, overlap, EmptyLike(inputs[1]))
    /\ UNCHANGED <<op, x, err, MOE_KERNEL, loads>>

AllToAll_forward(r, hasCtx, inputs, group, overlap, nxt) ==
    /\ hasCtx \/ ~overlap
    /\ SaveCtx(r, hasCtx, [comm_grp |-> group])
    /\ IF get_world_size(group) = 1
         THEN /\ Return(r, inputs, nxt)
              /\ handle' = [handle EXCEPT ![r] = "None"]
              /\ UNCHANGED <<loc, net, seqno, issued>>
         ELSE /\ Enter(r, group, "all_to_all",
                       [kind |-> "all_to_all",
                        parts |-> Chunk(inputs, get_world_size(group))])
              /\ InCollective(r, "dist.all_to_all_single", group, overlap, nxt, Len(inputs))
              /\ ReturnBuffer(r, overlap, EmptyLike(inputs))
    /\ UNCHANGED <<op, x, err, MOE_KERNEL, loads>>

\* AllGather.apply(x, group, overlap)
AllGatherForward(r) ==
    /\ pc[r] = "AllGather.forward"
    /\ AllGather_forward(r, TRUE, x[r], op.group, op.overlap, "ReduceScatter.forward")

\* ReduceScatter.apply(gathered, group, overlap)
ReduceScatterForward(r) ==
    /\ pc[r] = "ReduceScatter.forward"
    /\ ReduceScatter_forward(r, TRUE, Last(ret[r]), op.group, op.overlap,
                             "ReduceScatter.backward")

ReduceScatterBackward(r) ==
    /\ pc[r] = "ReduceScatter.backward"
    /\ AllGather_forward(r, FALSE, Last(ret[r]), ctx[r][2].comm_grp, FALSE,
                         "AllGather.backward")

AllGatherBackward(r) ==
    /\ pc[r] = "AllGather.backward"
    /\ ReduceScatter_forward(r, FALSE, Last(ret[r]), ctx[r][1].comm_grp, FALSE, "done")

\* AllToAll.apply(x, group, overlap)
AllToAllForward(r) ==
    /\ pc[r] = "AllToAll.forward"
    /\ AllToAll_forward(r, TRUE, x[r], op.group, op.overlap, "AllToAll.backward")

\* AllToAll.backward that hands the gradient back without the collective
AllToAllBackward_NoComm(r) ==
    /\ pc[r] = "AllToAll.backward"
    /\ Return(r, Last(ret[r]), "done")
    /\ UNCHANGED <<op, x, ctx, loc, net, seqno, issued, err, handle, MOE_KERNEL, loads>>

AllToAllBackward(r) ==
    /\ pc[r] = "AllToAll.backward"
    /\ AllToAll_forward(r, FALSE, Last(ret[r]), ctx[r][1].comm_grp, FALSE, "done")

\* dist.all_gather returns (or its handle completes): outputs holds every
\* member's tensor, in member order
AllGatherDone(r) ==
    /\ pc[r] = "dist.all_gather"
    /\ Joined(net, loc[r].group, loc[r].k, "all_gather")
    /\ LeaveCollective(r, AllGatherRecv(net, loc[r].group, loc[r].k))

ReduceScatterDone(r) ==
    /\ pc[r] = "dist.reduce_scatter"
    /\ Joined(net, loc[r].group, loc[r].k, "reduce_scatter")
    /\ LeaveCollective(r, ReduceScatterRecv(net, loc[r].group, loc[r].k, r))

AllToAllDone(r) ==
    /\ pc[r] = "dist.all_to_all_single"
    /\ Joined(net, loc[r].group, loc[r].k, "all_to_all")
    /\ LeaveCollective(r, FillBuffer(loc[r].aux, AllToAllRecv(net, loc[r].group, loc[r].k, r)))

----------------------------------------------------------------------------
(* SpecColl: every rank of one group runs AllToAll forward and backward, or  *)
(* AllGather, ReduceScatter on its result, and the two backwards.            *)

WorldGroup(W) == [id |-> 0, ranks |-> [i \in 1..W |-> i - 1]]

\* rows tagged with the rank and the row index they start at
TaggedRows(r, n) == [i \in 1..n |-> <<r, i>>]

NoLoc == [group |-> NoGroup, k |-> 0, nxt |-> "", overlap |-> FALSE, aux |-> 0]

InitRanks(W, first) ==
    /\ pc = [r \in 0..(W - 1) |-> first]
    /\ ret = [r \in 0..(W - 1) |-> <<>>]
    /\ ctx = [r \in 0..(W - 1) |-> <<>>]
    /\ loc = [r \in 0..(W - 1) |-> NoLoc]
    /\ issued = [r \in 0..(W - 1) |-> <<>>]
    /\ err = [r \in 0..(W - 1) |-> "none"]
    /\ handle = [r \in 0..(W - 1) |-> "None"]
    /\ MOE_KERNEL = "None"
    /\ loads = 0

InitAllToAll ==
    \E W \in 1..MaxWorld, c \in 1..MaxChunk, ov \in BOOLEAN :
        /\ op = [fn |-> "AllToAll", W |-> W, group |-> WorldGroup(W), overlap |-> ov]
        /\ x = [r \in 0..(W - 1) |-> TaggedRows(r, W * c)]
        /\ net = [g \in {0} |-> <<>>]
        /\ seqno = [r \in 0..(W - 1) |-> [g \in {0} |-> 0]]
        /\ InitRanks(W, "AllToAll.forward")

InitAllGather ==
    \E W \in 1..MaxWorld, n \in 1..MaxLen, ov \in BOOLEAN :
      \E v \in [0..(W - 1) -> 0..MaxVal] :
        /\ op = [fn |-> "AllGather", W |-> W, group |-> WorldGroup(W), overlap |-> ov]
        /\ x = [r \in 0..(W - 1) |-> [j \in 1..n |-> v[r] + (j - 1) * (MaxVal + 1)]]
        /\ net = [g \in {0} |-> <<>>]
        /\ seqno = [r \in 0..(W - 1) |-> [g \in {0} |-> 0]]
        /\ InitRanks(W, "AllGather.forward")

InitColl == InitAllToAll \/ InitAllGather

NextColl ==
    \/ \E r \in DOMAIN pc : AllToAllForward(r)
    \/ \E r \in DOMAIN pc : AllToAllDone(r)
    \/ \E r \in DOMAIN pc : AllToAllBackward(r)
    \/ \E r \in DOMAIN pc : AllGatherForward(r)
    \/ \E r \in DOMAIN pc : AllGatherDone(r)
    \/ \E r \in DOMAIN pc : ReduceScatterForward(r)
    \/ \E r \in DOMAIN pc : ReduceScatterDone(r)
    \/ \E r \in DOMAIN pc : ReduceScatterBackward(r)
    \/ \E r \in DOMAIN pc : AllGatherBackward(r)

SpecColl == InitColl /\ [][NextColl]_vars

AllDone == \A r \in DOMAIN pc : pc[r] = "done"

----------------------------------------------------------------------------
(* AllToAllUneven and all_to_all_uneven *)

\* Optional[List[int]]: None is the empty list here (a list of split sizes has
\* one entry per rank, so it is never empty)
None == <<>>

\* the rows of the output buffer _all_to_all allocates
OutputRows(inputs, output_split_sizes) ==
    IF output_split_sizes # None THEN SumSeq(output_split_sizes) ELSE Len(inputs)

\* _all_to_all that sizes the output buffer like the input
_all_to_all_InputShaped(r, inputs, input_split_sizes, output_split_sizes, group, async_op, nxt) ==
    /\ Enter(r, group, "all_to_all",
             [kind |-> "all_to_all",
              parts |-> IF input_split_sizes = None
                          THEN Chunk(inputs, get_world_size(group))
                          ELSE SplitBySizes(inputs, input_split_sizes)])
    /\ InCollective(r, "dist.all_to_all_single", group, async_op, nxt, Len(inputs))
    /\ ReturnBuffer(r, async_op, EmptyLike(inputs))

_all_to_all(r, inputs, input_split_sizes, output_split_sizes, group, async_op, nxt) ==
    /\ Enter(r, group, "all_to_all",
             [kind |-> "all_to_all",
              parts |-> IF input_split_sizes = None
                          THEN Chunk(inputs, get_world_size(group))
                          ELSE SplitBySizes(inputs, input_split_sizes)])
    /\ InCollective(r, "dist.all_to_all_single", group, async_op, nxt,
                    OutputRows(inputs, output_split_sizes))
    /\ ReturnBuffer(r, async_op, FillBuffer(OutputRows(inputs, output_split_sizes), <<>>))

AllToAllUneven_forward(r, inputs, input_split_sizes, output_split_sizes, group, overlap, nxt) ==
    /\ SaveCtx(r, TRUE, [input_split_sizes |-> input_split_sizes,
                         output_split_sizes |-> output_split_sizes,
                         group |-> group])
    /\ _all_to_all(r, inputs, input_split_sizes, output_split_sizes, group, overlap, nxt)

\* AllToAllUneven.backward that passes the two lists as forward did
AllToAllUneven_backward_Unswapped(r, c, grad, nxt) ==
    /\ _all_to_all(r, grad, c.input_split_sizes, c.output_split_sizes, c.group, FALSE, nxt)
    /\ UNCHANGED ctx

AllToAllUneven_backward(r, c, grad, nxt) ==
    /\ _all_to_all(r, grad, c.output_split_sizes, c.input_split_sizes, c.group, FALSE, nxt)
    /\ UNCHANGED ctx

Fail(r, exc) ==
    /\ err' = [err EXCEPT ![r] = exc]
    /\ pc' = [pc EXCEPT ![r] = "failed"]

\* all_to_all_uneven without its requires_grad assertion
all_to_all_uneven_Unchecked(r, inputs, requires_grad, input_split_sizes, output_split_sizes, group, overlap, nxt) ==
    /\ AllToAllUneven_forward(r, inputs, input_split_sizes, output_split_sizes,
                              group, overlap, nxt)
    /\ UNCHANGED err

all_to_all_uneven(r, inputs, requires_grad, input_split_sizes, output_split_sizes, group, overlap, nxt) ==
    IF ~requires_grad
      THEN /\ Fail(r, "AssertionError")
           /\ UNCHANGED <<ret, ctx, loc, net, seqno, issued, handle>>
      ELSE /\ AllToAllUneven_forward(r, inputs, input_split_sizes, output_split_sizes,
                                     group, overlap, nxt)
           /\ UNCHANGED err

\* all_to_all_uneven(x, in_sizes, out_sizes, group, overlap)
AllToAllUnevenCall(r) ==
    /\ pc[r] = "all_to_all_uneven"
    /\ all_to_all_uneven(r, x[r], op.requires_grad[r], op.in_sizes[r], op.out_sizes[r],
                         op.group, op.overlap, "all_to_all_uneven swapped")
    /\ UNCHANGED <<op, x, MOE_KERNEL, loads>>

\* all_to_all_uneven(result, out_sizes, in_sizes, group): the role-swapped call
\* on the first call's result, which autograd flags as requiring grad
AllToAllUnevenSwappedCall(r) ==
    /\ pc[r] = "all_to_all_uneven swapped"
    /\ all_to_all_uneven(r, ret[r][1], TRUE, op.out_sizes[r], op.in_sizes[r],
                         op.group, FALSE, "AllToAllUneven.backward 2")
    /\ UNCHANGED <<op, x, MOE_KERNEL, loads>>

\* the backward of the second call, then of the first
AllToAllUnevenBackward2(r) ==
    /\ pc[r] = "AllToAllUneven.backward 2"
    /\ AllToAllUneven_backward(r, ctx[r][2], Last(ret[r]), "AllToAllUneven.backward 1")
    /\ UNCHANGED <<op, x, err, MOE_KERNEL, loads>>

AllToAllUnevenBackward1(r) ==
    /\ pc[r] = "AllToAllUneven.backward 1"
    /\ AllToAllUneven_backward(r, ctx[r][1], Last(ret[r]), "done")
    /\ UNCHANGED <<op, x, err, MOE_KERNEL, loads>>

----------------------------------------------------------------------------
(* gather_tokens and drop_tokens.  Here a tensor has two axes: a sequence of *)
(* rows, each a sequence of elements.                                        *)

Shape(t) == <<Len(t), Len(t[1])>>

\* torch.cat(list, dim)
CatDim(ts, dim) ==
    IF dim = 0 THEN Cat(ts)
    ELSE [i \in 1..Len(ts[1]) |-> Cat([k \in 1..Len(ts) |-> ts[k][i]])]

\* torch.narrow(t, dim, start, length)
Narrow(t, dim, start, length) ==
    IF dim = 0 THEN SubSeq(t, start + 1, start + length)
    ELSE [i \in 1..Len(t) |-> SubSeq(t[i], start + 1, start + length)]

\* the assertion of _drop_tokens
DropDivisible(input_, dim, tp_group) ==
    Shape(input_)[dim + 1] % get_world_size(tp_group) = 0

\* _drop_tokens's result for rank r, when its assertion holds
_drop_tokens(r, input_, dim, tp_group) ==
    LET total_chunks == get_world_size(tp_group)
        this_chunk   == MemberIdx(tp_group, r) - 1
        chunk_size   == Shape(input_)[dim + 1] \div total_chunks
    IN Narrow(input_, dim, this_chunk * chunk_size, chunk_size)

\* _gather_tokens up to and including its dist.all_gather
_gather_tokens(r, input_, dim, tp_group, nxt) ==
    /\ Enter(r, tp_group, "all_gather", [kind |-> "all_gather", data |-> input_])
    /\ InCollective(r, "_gather_tokens dist.all_gather", tp_group, FALSE, nxt, dim)
    /\ UNCHANGED <<ret, err>>

\* _gather_tokens after its dist.all_gather: torch.cat(tensor_list, dim)
GatherTokensDone(r) ==
    /\ pc[r] = "_gather_tokens dist.all_gather"
    /\ Joined(net, loc[r].group, loc[r].k, "all_gather")
    /\ LeaveCollective(r, CatDim(AllGatherRecv(net, loc[r].group, loc[r].k), loc[r].aux))

_GatherTokens_forward(r, input_, dim, tp_group, nxt) ==
    /\ SaveCtx(r, TRUE, [dim |-> dim, tp_group |-> tp_group])
    /\ _gather_tokens(r, input_, dim, tp_group, nxt)

\* _DropTokens.forward whose _drop_tokens does not assert divisibility
_DropTokens_forward_Unasserted(r, input_, dim, tp_group, nxt) ==
    /\ SaveCtx(r, TRUE, [dim |-> dim, tp_group |-> tp_group])
    /\ Return(r, _drop_tokens(r, input_, dim, tp_group), nxt)
    /\ UNCHANGED <<loc, net, seqno, issued, err, handle>>

_DropTokens_forward(r, input_, dim, tp_group, nxt) ==
    IF DropDivisible(input_, dim, tp_group)
      THEN /\ SaveCtx(r, TRUE, [dim |-> dim, tp_group |-> tp_group])
           /\ Return(r, _drop_tokens(r, input_, dim, tp_group), nxt)
           /\ UNCHANGED <<loc, net, seqno, issued, err, handle>>
      ELSE /\ SaveCtx(r, TRUE, [dim |-> dim, tp_group |-> tp_group])
           /\ Fail(r, "AssertionError")
           /\ UNCHANGED <<ret, loc, net, seqno, issued, handle>>

\* Function.apply(*args): forward(ctx, input_, dim, tp_group) takes three
\* arguments after ctx, and Python raises TypeError when one is missing
_GatherTokens_apply(r, args, nxt) ==
    IF Len(args) # 3
      THEN /\ Fail(r, "TypeError")
           /\ UNCHANGED <<ret, ctx, loc, net, seqno, issued, handle>>
      ELSE _GatherTokens_forward(r, args[1], args[2], args[3], nxt)

_DropTokens_apply(r, args, nxt) ==
    IF Len(args) # 3
      THEN /\ Fail(r, "TypeError")
           /\ UNCHANGED <<ret, ctx, loc, net, seqno, issued, handle>>
      ELSE _DropTokens_forward(r, args[1], args[2], args[3], nxt)

gather_tokens(r, input_, requires_grad, dim, tp_group, nxt, nxt1) ==
    IF get_world_size(tp_group) = 1
      THEN /\ Return(r, input_, nxt1)
           /\ UNCHANGED <<ctx, loc, net, seqno, issued, err, handle>>
      ELSE IF ~requires_grad
        THEN /\ Fail(r, "AssertionError")
             /\ UNCHANGED <<ret, ctx, loc, net, seqno, issued, handle>>
        ELSE _GatherTokens_apply(r, <<input_, dim>>, nxt)

drop_tokens(r, input_, requires_grad, dim, tp_group, nxt, nxt1) ==
    IF get_world_size(tp_group) = 1
      THEN /\ Return(r, input_, nxt1)
           /\ UNCHANGED <<ctx, loc, net, seqno, issued, err, handle>>
      ELSE IF ~requires_grad
        THEN /\ Fail(r, "AssertionError")
             /\ UNCHANGED <<ret, ctx, loc, net, seqno, issued, handle>>
        ELSE _DropTokens_apply(r, <<input_, dim, tp_group>>, nxt)

\* gather_tokens(x, dim, tp_group)
GatherTokensCall(r) ==
    /\ pc[r] = "gather_tokens"
    /\ gather_tokens(r, x[r], op.requires_grad[r], op.dim, op.group,
                     "drop_tokens of gathered", "drop_tokens of gathered")
    /\ UNCHANGED <<op, x, MOE_KERNEL, loads>>

\* drop_tokens(gathered, dim, tp_group), on the result of gather_tokens: the
\* input itself when the group has one rank, else an output of autograd
DropOfGatheredCall(r) ==
    /\ pc[r] = "drop_tokens of gathered"
    /\ drop_tokens(r, ret[r][1],
                   IF get_world_size(op.group) = 1 THEN op.requires_grad[r] ELSE TRUE,
                   op.dim, op.group, "_DropTokens.backward", "done")
    /\ UNCHANGED <<op, x, MOE_KERNEL, loads>>

\* drop_tokens(x, dim, tp_group)
DropTokensCall(r) ==
    /\ pc[r] = "drop_tokens"
    /\ drop_tokens(r, x[r], op.requires_grad[r], op.dim, op.group,
                   "_DropTokens.backward", "done")
    /\ UNCHANGED <<op, x, MOE_KERNEL, loads>>

\* _GatherTokens.apply(x, dim, tp_group), the Function used directly
GatherTokensApply(r) ==
    /\ pc[r] = "_GatherTokens.apply"
    /\ _GatherTokens_apply(r, <<x[r], op.dim, op.group>>, "_GatherTokens.backward")
    /\ UNCHANGED <<op, x, MOE_KERNEL, loads>>

\* _DropTokens.backward: _gather_tokens of the gradient with the saved dim and group
DropTokensBackward(r) ==
    /\ pc[r] = "_DropTokens.backward"
    /\ _gather_tokens(r, Last(ret[r]), Last(ctx[r]).dim, Last(ctx[r]).tp_group,
                      IF Len(ctx[r]) = 2 THEN "_GatherTokens.backward" ELSE "done")
    /\ UNCHANGED <<op, x, ctx, MOE_KERNEL, loads>>

\* _GatherTokens.backward: _drop_tokens of the gradient with the saved dim and group
GatherTokensBackward(r) ==
    /\ pc[r] = "_GatherTokens.backward"
    /\ IF DropDivisible(Last(ret[r]), ctx[r][1].dim, ctx[r][1].tp_group)
         THEN /\ Return(r, _drop_tokens(r, Last(ret[r]), ctx[r][1].dim, ctx[r][1].tp_group),
                        "done")
              /\ UNCHANGED err
         ELSE /\ Fail(r, "AssertionError")
              /\ UNCHANGED ret
    /\ UNCHANGED <<op, x, ctx, loc, net, seqno, issued, handle, MOE_KERNEL, loads>>

----------------------------------------------------------------------------
(* SpecWrap: every rank of one group calls all_to_all_uneven and its         *)
(* role-swapped inverse, gather_tokens then drop_tokens, drop_tokens alone,  *)
(* or _GatherTokens directly; each followed by the backward passes.          *)

MaxSplit == 2
MaxDim == 3

\* elements tagged with the rank, row and column they start at
TaggedMatrix(r, rows, cols) == [i \in 1..rows |-> [j \in 1..cols |-> <<r, i, j>>]]

InitOneGroup(W) ==
    /\ net = [g \in {0} |-> <<>>]
    /\ seqno = [r \in 0..(W - 1) |-> [g \in {0} |-> 0]]

\* the split sizes rank r sends to rank d: rank 0's list, turned by k places per
\* rank (k = 0: every rank sends the same list)
SplitSize(base, k, W, r, d) == base[(d + k * r) % W]

\* split sizes that agree across ranks: what d expects from r is what r sends to d
InitUneven ==
    \E W \in 1..MaxWorld, ov \in BOOLEAN :
      \E base \in [0..(W - 1) -> 0..MaxSplit], k \in 0..(W - 1),
         rg \in [0..(W - 1) -> BOOLEAN] :
        /\ op = [fn |-> "all_to_all_uneven", W |-> W, group |-> WorldGroup(W),
                 overlap |-> ov, requires_grad |-> rg,
                 in_sizes  |-> [r \in 0..(W - 1) |->
                                 [d \in 1..W |-> SplitSize(base, k, W, r, d - 1)]],
                 out_sizes |-> [r \in 0..(W - 1) |->
                                 [t \in 1..W |-> SplitSize(base, k, W, t - 1, r)]]]
        /\ x = [r \in 0..(W - 1) |->
                  TaggedRows(r, SumSeq([d \in 1..W |-> SplitSize(base, k, W, r, d - 1)]))]
        /\ InitOneGroup(W)
        /\ InitRanks(W, "all_to_all_uneven")

\* no split sizes given: equal shards
InitUnevenNone ==
    \E W \in 1..MaxWorld, c \in 1..MaxChunk :
      \E rg \in [0..(W - 1) -> BOOLEAN] :
        /\ op = [fn |-> "all_to_all_uneven", W |-> W, group |-> WorldGroup(W),
                 overlap |-> FALSE, requires_grad |-> rg,
                 in_sizes  |-> [r \in 0..(W - 1) |-> None],
                 out_sizes |-> [r \in 0..(W - 1) |-> None]]
        /\ x = [r \in 0..(W - 1) |-> TaggedRows(r, W * c)]
        /\ InitOneGroup(W)
        /\ InitRanks(W, "all_to_all_uneven")

InitTokens ==
    \E W \in 1..MaxWorld, rows \in 1..MaxDim, cols \in 1..MaxDim, dim \in {0, 1},
       fn \in {"gather_tokens", "drop_tokens", "_GatherTokens.apply"} :
      \E rg \in [0..(W - 1) -> BOOLEAN] :
        /\ op = [fn |-> fn, W |-> W, group |-> WorldGroup(W), overlap |-> FALSE,
                 requires_grad |-> rg, dim |-> dim]
        /\ x = [r \in 0..(W - 1) |-> TaggedMatrix(r, rows, cols)]
        /\ InitOneGroup(W)
        /\ InitRanks(W, fn)

InitWrap == InitUneven \/ InitUnevenNone \/ InitTokens

NextWrap ==
    \/ \E r \in DOMAIN pc : AllToAllUnevenCall(r)
    \/ \E r \in DOMAIN pc : AllToAllUnevenSwappedCall(r)
    \/ \E r \in DOMAIN pc : AllToAllUnevenBackward2(r)
    \/ \E r \in DOMAIN pc : AllToAllUnevenBackward1(r)
    \/ \E r \in DOMAIN pc : AllToAllDone(r)
    \/ \E r \in DOMAIN pc : GatherTokensCall(r)
    \/ \E r \in DOMAIN pc : DropOfGatheredCall(r)
    \/ \E r \in DOMAIN pc : DropTokensCall(r)
    \/ \E r \in DOMAIN pc : GatherTokensApply(r)
    \/ \E r \in DOMAIN pc : GatherTokensDone(r)
    \/ \E r \in DOMAIN pc : DropTokensBackward(r)
    \/ \E r \in DOMAIN pc : GatherTokensBackward(r)

SpecWrap == InitWrap /\ [][NextWrap]_vars

----------------------------------------------------------------------------
(* SpecOverlap: the four primitives that take an overlap flag, each called   *)
(* by every rank of one group with and without it.                           *)

InitOverlap == InitColl \/ InitUneven

NextOverlap ==
    \/ \E r \in DOMAIN pc : AllToAllForward(r)
    \/ \E r \in DOMAIN pc : AllToAllDone(r)
    \/ \E r \in DOMAIN pc : AllToAllBackward(r)
    \/ \E r \in DOMAIN pc : AllGatherForward(r)
    \/ \E r \in DOMAIN pc : AllGatherDone(r)
    \/ \E r \in DOMAIN pc : ReduceScatterForward(r)
    \/ \E r \in DOMAIN pc : ReduceScatterDone(r)
    \/ \E r \in DOMAIN pc : ReduceScatterBackward(r)
    \/ \E r \in DOMAIN pc : AllGatherBackward(r)
    \/ \E r \in DOMAIN pc : AllToAllUnevenCall(r)
    \/ \E r \in DOMAIN pc : AllToAllUnevenSwappedCall(r)
    \/ \E r \in DOMAIN pc : AllToAllUnevenBackward2(r)
    \/ \E r \in DOMAIN pc : AllToAllUnevenBackward1(r)

SpecOverlap == InitOverlap /\ [][NextOverlap]_vars

----------------------------------------------------------------------------
(* HierarchicalAllToAll *)

\* torch.cat(sum(zip(*lists), ())): the j-th chunk of every list, for each j in
\* turn, as far as the shortest list goes
ZipCat(lists) ==
    LET n == CHOOSE m \in 0..(Len(lists[1])) :
                 /\ \A i \in 1..Len(lists) : Len(lists[i]) >= m
                 /\ \/ m = Len(lists[1])
                    \/ \E i \in 1..Len(lists) : Len(lists[i]) = m
    IN Cat([j \in 1..n |-> Cat([i \in 1..Len(lists) |-> lists[i][j]])])

\* the locals of HierarchicalAllToAll.forward
NumGroup(inter_node_group) ==
    IF inter_node_group # NoGroup THEN get_world_size(inter_node_group) ELSE 1

\* lines 170-171: the gathered tensors, chunk by chunk across the local ranks
InterleaveLocal(gathered, world_size) ==
    ZipCat([i \in 1..Len(gathered) |-> Chunk(gathered[i], world_size)])

\* the layout transform left out
LayoutTransform_Skipped(inter_output, num_group, local_world_size) == inter_output

\* lines 179-181: the layout transform after the inter-node all-to-all
LayoutTransform(inter_output, num_group, local_world_size) ==
    LET per_node == Chunk(inter_output, num_group)
    IN ZipCat([g \in 1..Len(per_node) |-> Chunk(per_node[g], local_world_size)])

\* forward up to its dist.gather: every rank hands its tensor to the gather
HierarchicalAllToAll_forward(r, hasCtx, inputs, groups, src_rank, nxt) ==
    /\ SaveCtx(r, hasCtx, [comm_grps |-> groups, src_rank |-> src_rank])
    /\ Enter(r, groups[1], "gather", [kind |-> "gather", data |-> inputs])
    /\ InCollective(r, "dist.gather", groups[1], FALSE, nxt,
                    [groups |-> groups, src_rank |-> src_rank, rows |-> Len(inputs)])
    /\ UNCHANGED <<op, x, ret, err, MOE_KERNEL, loads>>

\* HierarchicalAllToAll.apply(x, groups, src_rank)
HierForward(r) ==
    /\ pc[r] = "HierarchicalAllToAll.forward"
    /\ HierarchicalAllToAll_forward(r, TRUE, x[r], op.groups[r], op.src_rank[r],
                                    "HierarchicalAllToAll.backward")

\* backward that leaves the inter-node group out
HierBackward_IntraOnly(r) ==
    /\ pc[r] = "HierarchicalAllToAll.backward"
    /\ HierarchicalAllToAll_forward(r, FALSE, Last(ret[r]),
                                    <<ctx[r][1].comm_grps[1], NoGroup>>,
                                    ctx[r][1].src_rank, "done")

HierBackward(r) ==
    /\ pc[r] = "HierarchicalAllToAll.backward"
    /\ HierarchicalAllToAll_forward(r, FALSE, Last(ret[r]), ctx[r][1].comm_grps,
                                    ctx[r][1].src_rank, "done")

\* rank r enters the intra-node scatter; the designated rank brings the chunks
EnterScatter(r, intra_node_group, chunks, a, nxt) ==
    /\ Enter(r, intra_node_group, "scatter", [kind |-> "scatter", parts |-> chunks])
    /\ InCollective(r, "dist.scatter", intra_node_group, FALSE, nxt, a)

\* dist.gather returns and the designated rank goes on to the scatter without
\* the inter-node all-to-all
HierGatherDone_NoInter(r) ==
    /\ pc[r] = "dist.gather"
    /\ LET a     == loc[r].aux
           intra == a.groups[1]
           local_world_size == get_world_size(intra)
           world_size == local_world_size * NumGroup(a.groups[2])
       IN IF r = a.src_rank
            THEN /\ Joined(net, intra, loc[r].k, "gather")
                 /\ EnterScatter(r, intra,
                                 Chunk(InterleaveLocal([i \in 1..local_world_size |->
                                                          net[intra.id][loc[r].k][i].data],
                                                       world_size),
                                       local_world_size),
                                 a, loc[r].nxt)
            ELSE EnterScatter(r, intra, <<>>, a, loc[r].nxt)
    /\ UNCHANGED <<op, x, ret, ctx, err, MOE_KERNEL, loads>>

\* dist.gather returns.  On the designated rank, once every local rank's tensor
\* is there: interleave, then the inter-node all-to-all, or with no inter-node
\* group the scatter.  On any other rank: on to the scatter.
\* (a local is bound as the one element of a set, so that it is computed once)
HierGatherDone(r) ==
    /\ pc[r] = "dist.gather"
    /\ LET a     == loc[r].aux
           intra == a.groups[1]
           inter == a.groups[2]
           local_world_size == get_world_size(intra)
           world_size == local_world_size * NumGroup(inter)
       IN IF r = a.src_rank
            THEN /\ Joined(net, intra, loc[r].k, "gather")
                 /\ \E gathered \in {[i \in 1..local_world_size |->
                                          net[intra.id][loc[r].k][i].data]} :
                    \E intra_output \in {InterleaveLocal(gathered, world_size)} :
                      IF inter # NoGroup
                        THEN \E parts \in {Chunk(intra_output, get_world_size(inter))} :
                               /\ Enter(r, inter, "all_to_all",
                                        [kind |-> "all_to_all", parts |-> parts])
                               /\ InCollective(r, "inter dist.all_to_all_single", inter,
                                               FALSE, loc[r].nxt,
                                               [a EXCEPT !.rows = Len(intra_output)])
                        ELSE \E chunks \in {Chunk(intra_output, local_world_size)} :
                               EnterScatter(r, intra, chunks, a, loc[r].nxt)
            ELSE EnterScatter(r, intra, <<>>, a, loc[r].nxt)
    /\ UNCHANGED <<op, x, ret, ctx, err, MOE_KERNEL, loads>>

\* the designated rank returns after the inter-node all-to-all and leaves the
\* scatter out
HierAllToAllDone_NoScatter(r) ==
    /\ pc[r] = "inter dist.all_to_all_single"
    /\ Joined(net, loc[r].group, loc[r].k, "all_to_all")
    /\ LeaveCollective(r, FillBuffer(loc[r].aux.rows,
                                     AllToAllRecv(net, loc[r].aux.groups[2], loc[r].k, r)))

\* the inter-node dist.all_to_all_single returns on a designated rank: layout
\* transform, then the scatter
HierAllToAllDone(r) ==
    /\ pc[r] = "inter dist.all_to_all_single"
    /\ Joined(net, loc[r].group, loc[r].k, "all_to_all")
    /\ LET a     == loc[r].aux
           intra == a.groups[1]
           inter == a.groups[2]
           local_world_size == get_world_size(intra)
       IN \E inter_output \in {FillBuffer(a.rows, AllToAllRecv(net, inter, loc[r].k, r))} :
          \E intra_output \in {LayoutTransform(inter_output, NumGroup(inter),
                                               local_world_size)} :
          \E chunks \in {Chunk(intra_output, local_world_size)} :
            EnterScatter(r, intra, chunks,
                         [a EXCEPT !.rows = Len(intra_output) \div local_world_size],
                         loc[r].nxt)
    /\ UNCHANGED <<op, x, ret, ctx, err, MOE_KERNEL, loads>>

\* dist.scatter returns: outputs holds the chunk the designated rank brought
\* for this rank
HierScatterDone(r) ==
    /\ pc[r] = "dist.scatter"
    /\ LET a     == loc[r].aux
           intra == a.groups[1]
           from  == net[intra.id][loc[r].k][MemberIdx(intra, a.src_rank)]
       IN /\ IsMember(intra, a.src_rank)
          /\ from.kind = "scatter"
          /\ LeaveCollective(r, FillBuffer(a.rows, from.parts[MemberIdx(intra, r)]))

----------------------------------------------------------------------------
(* SpecHier: G nodes of L ranks each, global rank g*L + l; every rank runs   *)
(* HierarchicalAllToAll forward and backward with its node's designated rank *)

MaxHierWorld == 4

IntraGroup(g, L) == [id |-> g, ranks |-> [i \in 1..L |-> g * L + i - 1]]

\* the group of the designated ranks, one per node, in node order
InterGroup(G, L, s) == [id |-> G, ranks |-> [g \in 1..G |-> (g - 1) * L + s[g - 1]]]

InitHier ==
    \E G \in 1..MaxHierWorld, L \in 1..MaxHierWorld, c \in 1..MaxChunk, noInter \in BOOLEAN :
      \E s \in [0..(G - 1) -> 0..(L - 1)] :
        /\ G * L <= MaxHierWorld
        /\ noInter => G = 1
        /\ op = [fn |-> "HierarchicalAllToAll", W |-> G * L, G |-> G, L |-> L,
                 groups |-> [r \in 0..(G * L - 1) |->
                               <<IntraGroup(r \div L, L),
                                 IF noInter THEN NoGroup ELSE InterGroup(G, L, s)>>],
                 src_rank |-> [r \in 0..(G * L - 1) |-> (r \div L) * L + s[r \div L]]]
        /\ x = [r \in 0..(G * L - 1) |-> TaggedRows(r, G * L * c)]
        /\ net = [g \in 0..G |-> <<>>]
        /\ seqno = [r \in 0..(G * L - 1) |-> [g \in 0..G |-> 0]]
        /\ InitRanks(G * L, "HierarchicalAllToAll.forward")

NextHier ==
    \/ \E r \in DOMAIN pc : HierForward(r)
    \/ \E r \in DOMAIN pc : HierGatherDone(r)
    \/ \E r \in DOMAIN pc : HierAllToAllDone(r)
    \/ \E r \in DOMAIN pc : HierScatterDone(r)
    \/ \E r \in DOMAIN pc : HierBackward(r)

SpecHier == InitHier /\ [][NextHier]_vars

\* what a rank does between its call of forward and forward's return: the call
\* itself and the return of each dist call it is in
HierForwardStep ==
    \/ \E r \in DOMAIN pc : HierForward(r)
    \/ \E r \in DOMAIN pc : HierScatterDone(r)
    \/ \E r \in DOMAIN pc : HierGatherDone(r)
    \/ \E r \in DOMAIN pc : HierAllToAllDone(r)

\* The ranks are running processes: while some rank can take its next step of
\* forward (make the call, or return from a dist call whose peers have joined),
\* one of them does.  This asks less than a fair schedule of every rank.
\* Nothing makes a caller run backward.
SpecHierFair == InitHier /\ [][NextHier]_vars /\ WF_vars(HierForwardStep)

----------------------------------------------------------------------------
(* MoeDispatch and MoeCombine.  A tensor here is [dtype, rows], its rows      *)
(* sequences of integers; mask is S x E of 0/1 and dest_idx one slot per      *)
(* token.                                                                     *)

\* the significand bits of a floating-point element type
Precision(dtype) ==
    CASE dtype = "float32"  -> 24
      [] dtype = "float16"  -> 11
      [] dtype = "bfloat16" -> 8

\* an integer of magnitude up to 2^(bits+1) rounded to the type: exact up to
\* 2^bits, to the nearest even multiple of 2 above
RoundTo(dtype, v) ==
    LET lim == 2 ^ Precision(dtype)
        a   == IF v < 0 THEN -v ELSE v
        q   == a \div 2
        e   == IF a % 2 = 0 THEN a ELSE IF q % 2 = 0 THEN 2 * q ELSE 2 * (q + 1)
    IN IF a <= lim THEN v ELSE IF v < 0 THEN -e ELSE e

\* a cast that leaves the tensor as it is
To_Nothing(t, dtype) == t

\* Tensor.to(dtype)
To(t, dtype) ==
    [dtype |-> dtype,
     rows  |-> [i \in 1..Len(t.rows) |->
                  [j \in 1..Len(t.rows[i]) |-> RoundTo(dtype, t.rows[i][j])]]]

ZeroRow(h) == [j \in 1..h |-> 0]

Assigned(mask, i) == \E e \in 1..Len(mask[i]) : mask[i][e] # 0

\* the kernel provider's four operations, on float32 payloads
dispatch_forward(s, ec, h, tokens, mask, dest_idx) ==
    [dtype |-> "float32",
     rows  |-> [slot \in 1..ec |->
                  IF \E i \in 1..s : Assigned(mask, i) /\ dest_idx[i] = slot - 1
                    THEN tokens.rows[CHOOSE i \in 1..s :
                                        Assigned(mask, i) /\ dest_idx[i] = slot - 1]
                    ELSE ZeroRow(h)]]

dispatch_backward(s, ec, h, output_grad, mask, dest_idx) ==
    [dtype |-> "float32",
     rows  |-> [i \in 1..s |->
                  IF Assigned(mask, i) THEN output_grad.rows[dest_idx[i] + 1]
                  ELSE ZeroRow(h)]]

\* the expert of a slot: slot = expert * capacity + position
ExpertOf(c, slot) == (slot \div c) + 1

combine_forward(s, e, c, h, expert_tokens, logits, mask, dest_idx) ==
    [dtype |-> "float32",
     rows  |-> [i \in 1..s |->
                  IF Assigned(mask, i)
                    THEN [j \in 1..h |->
                            logits.rows[i][ExpertOf(c, dest_idx[i])]
                              * expert_tokens.rows[dest_idx[i] + 1][j]]
                    ELSE ZeroRow(h)]]

combine_backward(s, e, c, h, tokens_grad, expert_tokens, logits, mask, dest_idx) ==
    [d_expert |->
        [dtype |-> "float32",
         rows  |-> [slot \in 1..(e * c) |->
                      IF \E i \in 1..s : Assigned(mask, i) /\ dest_idx[i] = slot - 1
                        THEN LET i == CHOOSE k \in 1..s :
                                          Assigned(mask, k) /\ dest_idx[k] = slot - 1
                             IN [j \in 1..h |->
                                    logits.rows[i][ExpertOf(c, slot - 1)]
                                      * tokens_grad.rows[i][j]]
                        ELSE ZeroRow(h)]],
     d_logits |->
        [dtype |-> "float32",
         rows  |-> [i \in 1..s |-> [x_e \in 1..e |->
                      IF mask[i][x_e] # 0
                        THEN SumSeq([j \in 1..h |->
                                 expert_tokens.rows[dest_idx[i] + 1][j]
                                   * tokens_grad.rows[i][j]])
                        ELSE 0]]]]

\* a kernel operation is invoked: issued logs its name and the element types of
\* the floating-point tensors it is passed
Invoke(r, name, payloads) ==
    issued' = [issued EXCEPT ![r] = Append(@, <<name>> \o [i \in 1..Len(payloads) |->
                                                            payloads[i].dtype])]

\* load_moe() on every call, whatever MOE_KERNEL holds
LoadIfNone_Always ==
    /\ MOE_KERNEL' = "kernel"
    /\ loads' = loads + 1

\* load_moe(), when MOE_KERNEL is None
LoadIfNone ==
    /\ MOE_KERNEL' = "kernel"
    /\ loads' = IF MOE_KERNEL = "None" THEN loads + 1 ELSE loads

\* MoeDispatch.forward that returns the kernel's float32 buffer as it is
MoeDispatch_forward_NoCastBack(r, tokens, mask, dest_idx, ec, nxt) ==
    LET s == Len(tokens.rows)
        h == Len(tokens.rows[1])
        dtype == tokens.dtype
        tokens32 == IF tokens.dtype # "float32" THEN To(tokens, "float32") ELSE tokens
        expert_input == dispatch_forward(s, ec, h, tokens32, mask, dest_idx)
    IN /\ LoadIfNone
       /\ SaveCtx(r, TRUE, [mask |-> mask, dest_idx |-> dest_idx,
                            s |-> s, h |-> h, ec |-> ec, dtype |-> dtype])
       /\ Invoke(r, "dispatch_forward", <<tokens32>>)
       /\ Return(r, expert_input, nxt)
       /\ UNCHANGED <<op, x, loc, net, seqno, err, handle>>

MoeDispatch_forward(r, tokens, mask, dest_idx, ec, nxt) ==
    LET s == Len(tokens.rows)
        h == Len(tokens.rows[1])
        dtype == tokens.dtype
        tokens32 == IF tokens.dtype # "float32" THEN To(tokens, "float32") ELSE tokens
        kernel_out == dispatch_forward(s, ec, h, tokens32, mask, dest_idx)
        expert_input == IF kernel_out.dtype # dtype THEN To(kernel_out, dtype)
                        ELSE kernel_out
    IN /\ LoadIfNone
       /\ SaveCtx(r, TRUE, [mask |-> mask, dest_idx |-> dest_idx,
                            s |-> s, h |-> h, ec |-> ec, dtype |-> dtype])
       /\ Invoke(r, "dispatch_forward", <<tokens32>>)
       /\ Return(r, expert_input, nxt)
       /\ UNCHANGED <<op, x, loc, net, seqno, err, handle>>

MoeDispatch_backward(r, c, output_grad, nxt) ==
    LET grad32 == IF output_grad.dtype # "float32" THEN To(output_grad, "float32")
                  ELSE output_grad
        kernel_out == dispatch_backward(c.s, c.ec, c.h, grad32, c.mask, c.dest_idx)
        d_tokens == IF kernel_out.dtype # c.dtype THEN To(kernel_out, c.dtype)
                    ELSE kernel_out
    IN IF MOE_KERNEL = "None"
         THEN /\ Fail(r, "AttributeError")
              /\ UNCHANGED <<op, x, ret, ctx, loc, net, seqno, issued, handle,
                             MOE_KERNEL, loads>>
         ELSE /\ Invoke(r, "dispatch_backward", <<grad32>>)
              /\ Return(r, d_tokens, nxt)
              /\ UNCHANGED <<op, x, ctx, loc, net, seqno, err, handle,
                             MOE_KERNEL, loads>>

MoeCombine_forward(r, expert_tokens, logits, mask, dest_idx, ec, nxt) ==
    IF logits.dtype # "float32"
      THEN /\ Fail(r, "AssertionError")
           /\ UNCHANGED <<op, x, ret, ctx, loc, net, seqno, issued, handle,
                          MOE_KERNEL, loads>>
      ELSE LET s == Len(logits.rows)
               e == Len(logits.rows[1])
               c == ec \div e
               h == Len(expert_tokens.rows[1])
               dtype == expert_tokens.dtype
               expert32 == IF expert_tokens.dtype # "float32"
                             THEN To(expert_tokens, "float32") ELSE expert_tokens
               kernel_out == combine_forward(s, e, c, h, expert32, logits, mask, dest_idx)
               output == IF kernel_out.dtype # dtype THEN To(kernel_out, dtype)
                         ELSE kernel_out
           IN /\ LoadIfNone
              /\ SaveCtx(r, TRUE, [expert_tokens |-> expert32, logits |-> logits,
                                   mask |-> mask, dest_idx |-> dest_idx,
                                   s |-> s, e |-> e, c |-> c, h |-> h, dtype |-> dtype])
              /\ Invoke(r, "combine_forward", <<expert32, logits>>)
              /\ Return(r, output, nxt)
              /\ UNCHANGED <<op, x, loc, net, seqno, err, handle>>

MoeCombine_backward(r, c, tokens_grad, nxt) ==
    LET grad32 == IF tokens_grad.dtype # "float32" THEN To(tokens_grad, "float32")
                  ELSE tokens_grad
        g == combine_backward(c.s, c.e, c.c, c.h, grad32, c.expert_tokens, c.logits,
                              c.mask, c.dest_idx)
        d_expert == IF g.d_expert.dtype # c.dtype THEN To(g.d_expert, c.dtype)
                    ELSE g.d_expert
    IN IF MOE_KERNEL = "None"
         THEN /\ Fail(r, "AttributeError")
              /\ UNCHANGED <<op, x, ret, ctx, loc, net, seqno, issued, handle,
                             MOE_KERNEL, loads>>
         ELSE /\ Invoke(r, "combine_backward", <<grad32, c.expert_tokens, c.logits>>)
              /\ ret' = [ret EXCEPT ![r] = @ \o <<d_expert, g.d_logits>>]
              /\ pc' = [pc EXCEPT ![r] = nxt]
              /\ UNCHANGED <<op, x, ctx, loc, net, seqno, err, handle,
                             MOE_KERNEL, loads>>

\* MoeDispatch.apply(tokens, mask, dest_idx, ec)
MoeDispatchForward(r) ==
    /\ pc[r] = "MoeDispatch.forward"
    /\ MoeDispatch_forward(r, x[r], op.mask, op.dest_idx, op.ec, "MoeCombine.forward")

\* MoeCombine.apply(expert_input, logits, mask, dest_idx, ec) on the dispatch buffer
MoeCombineForward(r) ==
    /\ pc[r] = "MoeCombine.forward"
    /\ MoeCombine_forward(r, ret[r][1], op.logits, op.mask, op.dest_idx, op.ec,
                          "MoeCombine.backward")

\* the backward pass: the combined output as the incoming gradient; ret gains
\* d_expert, then d_logits
MoeCombineBackward(r) ==
    /\ pc[r] = "MoeCombine.backward"
    /\ MoeCombine_backward(r, ctx[r][2], ret[r][2], "MoeDispatch.backward")

MoeDispatchBackward(r) ==
    /\ pc[r] = "MoeDispatch.backward"
    /\ MoeDispatch_backward(r, ctx[r][1], ret[r][3], "done")

----------------------------------------------------------------------------
(* SpecMoe: one rank dispatches S tokens into E experts of a given capacity, *)
(* combines the buffer back, and runs both backwards.                        *)

MaxTokens == 4
MaxExperts == 2
MaxCapacity == 2

\* the router's outputs for a choice of expert per token (0: none): a token's
\* position is its rank among the tokens of its expert, and it is dropped when
\* the position reaches the capacity
Position(assign, i) == Cardinality({k \in 1..(i - 1) : assign[k] = assign[i]})

RouterMask(assign, E, c) ==
    [i \in 1..Len(assign) |-> [e \in 1..E |->
        IF assign[i] = e /\ Position(assign, i) < c THEN 1 ELSE 0]]

RouterDestIdx(assign, E, c) ==
    [i \in 1..Len(assign) |->
        IF assign[i] # 0 /\ Position(assign, i) < c
          THEN (assign[i] - 1) * c + Position(assign, i) ELSE 0]

InitMoe ==
    \E S \in 1..MaxTokens, E \in 1..MaxExperts, c \in 1..MaxCapacity, w \in {1, 2},
       dtype \in {"float32", "float16", "bfloat16"},
       ldtype \in {"float32", "float16"} :
      \E assign \in [1..S -> 0..E] :
        LET mask == RouterMask(assign, E, c)
        IN /\ op = [fn |-> "MoeDispatch", W |-> 1, assign |-> assign, E |-> E, c |-> c,
                    ec |-> E * c, mask |-> mask,
                    dest_idx |-> RouterDestIdx(assign, E, c),
                    logits |-> [dtype |-> ldtype,
                                rows |-> [i \in 1..S |-> [e \in 1..E |->
                                            IF mask[i][e] # 0 THEN w ELSE 3 - w]]]]
           /\ x = [r \in {0} |->
                     [dtype |-> dtype,
                      rows |-> [i \in 1..S |-> <<10 * i + 1, 10 * i + 2>>]]]
           /\ net = [g \in {0} |-> <<>>]
           /\ seqno = [r \in {0} |-> [g \in {0} |-> 0]]
           /\ InitRanks(1, "MoeDispatch.forward")

NextMoe ==
    \/ \E r \in DOMAIN pc : MoeDispatchForward(r)
    \/ \E r \in DOMAIN pc : MoeCombineForward(r)
    \/ \E r \in DOMAIN pc : MoeCombineBackward(r)
    \/ \E r \in DOMAIN pc : MoeDispatchBackward(r)

SpecMoe == InitMoe /\ [][NextMoe]_vars

----------------------------------------------------------------------------
(* moe_cumsum.  Its input is a vector of dim0 entries of which the model     *)
(* keeps the leading ones: a prefix sum's leading entries depend on no       *)
(* others.                                                                   *)

\* torch.cumsum(v, dim=0) - 1 on the leading entries
RECURSIVE CumsumSubOne(_)
CumsumSubOne(v) ==
    IF v = <<>> THEN <<>>
    ELSE LET front == CumsumSubOne(SubSeq(v, 1, Len(v) - 1))
         IN Append(front, (IF front = <<>> THEN -1 ELSE Last(front)) + Last(v))

\* the kernel provider's cumsum_sub_one
cumsum_sub_one(v) == CumsumSubOne(v)

moe_cumsum(r, inputs, use_kernel, nxt) ==
    LET dim0 == inputs.dim0
        flag == (dim0 <= 1024) \/ (dim0 <= 2048 /\ dim0 % 2 = 0) \/ (dim0 % 4 = 0)
    IN /\ IF flag /\ use_kernel
            THEN /\ LoadIfNone
                 /\ Invoke(r, "cumsum_sub_one", <<>>)
                 /\ Return(r, [dim0 |-> dim0, rows |-> cumsum_sub_one(inputs.rows)], nxt)
            ELSE /\ Return(r, [dim0 |-> dim0, rows |-> CumsumSubOne(inputs.rows)], nxt)
                 /\ UNCHANGED <<MOE_KERNEL, loads, issued>>
       /\ UNCHANGED <<op, x, ctx, loc, net, seqno, err, handle>>

----------------------------------------------------------------------------
(* SpecKernel: one process makes MoeDispatch, MoeCombine and moe_cumsum      *)
(* forward calls in any sequence, and the backward of any call made before,  *)
(* at any later time (more than once when the graph is retained).  A         *)
(* backward is handed a gradient of ones.                                    *)

\* the calls go on until this many tensors have been returned
MaxReturned == 5

Ones(dtype, n, h) == [dtype |-> dtype, rows |-> [i \in 1..n |-> [j \in 1..h |-> 1]]]

MayCall(r) ==
    /\ pc[r] = "kernel calls"
    /\ Len(ret[r]) < MaxReturned

KernelDispatchForward(r) ==
    /\ MayCall(r)
    /\ \E dtype \in {"float32", "float16"} :
          MoeDispatch_forward(r, [dtype |-> dtype, rows |-> <<<<1, 2>>, <<3, 4>>>>],
                              RouterMask(<<1, 0>>, 1, 2), RouterDestIdx(<<1, 0>>, 1, 2), 2,
                              "kernel calls")

KernelCombineForward(r) ==
    /\ MayCall(r)
    /\ \E dtype \in {"float32", "float16"} :
          MoeCombine_forward(r, [dtype |-> dtype, rows |-> <<<<1, 2>>, <<3, 4>>>>],
                             [dtype |-> "float32", rows |-> <<<<1>>, <<1>>>>],
                             RouterMask(<<1, 0>>, 1, 2), RouterDestIdx(<<1, 0>>, 1, 2), 2,
                             "kernel calls")

KernelCumsum(r) ==
    /\ MayCall(r)
    /\ \E dim0 \in {3, 1025, 2050}, use_kernel \in BOOLEAN :
          moe_cumsum(r, [dim0 |-> dim0, rows |-> <<1, 0, 1>>], use_kernel, "kernel calls")

\* the backward of an earlier MoeDispatch call
KernelDispatchBackward(r) ==
    /\ MayCall(r)
    /\ \E i \in 1..Len(ctx[r]) :
          /\ "e" \notin DOMAIN ctx[r][i]
          /\ MoeDispatch_backward(r, ctx[r][i], Ones(ctx[r][i].dtype, ctx[r][i].ec, ctx[r][i].h),
                                  "kernel calls")

\* the backward of an earlier MoeCombine call
KernelCombineBackward(r) ==
    /\ MayCall(r)
    /\ \E i \in 1..Len(ctx[r]) :
          /\ "e" \in DOMAIN ctx[r][i]
          /\ MoeCombine_backward(r, ctx[r][i], Ones(ctx[r][i].dtype, ctx[r][i].s, ctx[r][i].h),
                                 "kernel calls")

InitKernel ==
    /\ op = [fn |-> "kernel", W |-> 1]
    /\ x = [r \in {0} |-> <<>>]
    /\ net = [g \in {0} |-> <<>>]
    /\ seqno = [r \in {0} |-> [g \in {0} |-> 0]]
    /\ InitRanks(1, "kernel calls")

NextKernel ==
    \/ \E r \in DOMAIN pc : KernelDispatchForward(r)
    \/ \E r \in DOMAIN pc : KernelCombineForward(r)
    \/ \E r \in DOMAIN pc : KernelCumsum(r)
    \/ \E r \in DOMAIN pc : KernelDispatchBackward(r)
    \/ \E r \in DOMAIN pc : KernelCombineBackward(r)

SpecKernel == InitKernel /\ [][NextKernel]_vars

----------------------------------------------------------------------------
(* The gradient scalers.  A gradient is a sequence of rationals <<n, d>> in   *)
(* lowest terms, d > 0: the scaling is followed in exact arithmetic, without  *)
(* the rounding of the element type.                                          *)

RECURSIVE GCD(_, _)
GCD(a, b) == IF b = 0 THEN a ELSE GCD(b, a % b)

Abs(a) == IF a < 0 THEN -a ELSE a

Rat(n, d) ==
    LET g == GCD(Abs(n), Abs(d))
        sg == IF d < 0 THEN -1 ELSE 1
    IN <<sg * (n \div g), sg * (d \div g)>>

RatMul(p, q) == Rat(p[1] * q[1], p[2] * q[2])

\* grad * factor, elementwise
Scale(grad, factor) == [i \in 1..Len(grad) |-> RatMul(grad[i], factor)]

ScalerForward(r, c, inputs, nxt) ==
    /\ SaveCtx(r, TRUE, c)
    /\ Return(r, inputs, nxt)
    /\ UNCHANGED <<op, x, loc, net, seqno, issued, err, handle, MOE_KERNEL, loads>>

ScalerBackward(r, grad, nxt) ==
    /\ Return(r, grad, nxt)
    /\ UNCHANGED <<op, x, ctx, net, seqno, issued, err, handle, MOE_KERNEL, loads>>

EPGradScalerIn_forward(r, inputs, ep_size, nxt) ==
    ScalerForward(r, [ep_size |-> ep_size], inputs, nxt)

EPGradScalerIn_backward(r, c, grad, nxt) ==
    /\ ScalerBackward(r, IF c.ep_size # 1 THEN Scale(grad, Rat(c.ep_size, 1)) ELSE grad, nxt)
    /\ UNCHANGED loc

EPGradScalerOut_forward(r, inputs, ep_size, nxt) ==
    ScalerForward(r, [ep_size |-> ep_size], inputs, nxt)

\* EPGradScalerOut.backward that multiplies, as EPGradScalerIn's does
EPGradScalerOut_backward_Multiplies(r, c, grad, nxt) ==
    /\ ScalerBackward(r, IF c.ep_size # 1 THEN Scale(grad, Rat(c.ep_size, 1)) ELSE grad, nxt)
    /\ UNCHANGED loc

EPGradScalerOut_backward(r, c, grad, nxt) ==
    /\ ScalerBackward(r, IF c.ep_size # 1 THEN Scale(grad, Rat(1, c.ep_size)) ELSE grad, nxt)
    /\ UNCHANGED loc

\* a DP scaler's forward without its assertion
DPGradScaler_forward_Unasserted(r, inputs, moe_dp_size, activated_experts, nxt) ==
    ScalerForward(r, [moe_dp_size |-> moe_dp_size,
                      activated_experts |-> activated_experts], inputs, nxt)

DPGradScaler_forward(r, inputs, moe_dp_size, activated_experts, nxt) ==
    IF activated_experts = 0
      THEN /\ Fail(r, "AssertionError")
           /\ UNCHANGED <<op, x, ret, ctx, loc, net, seqno, issued, handle,
                          MOE_KERNEL, loads>>
      ELSE ScalerForward(r, [moe_dp_size |-> moe_dp_size,
                             activated_experts |-> activated_experts], inputs, nxt)

DPGradScalerIn_forward(r, inputs, moe_dp_size, activated_experts, nxt) ==
    DPGradScaler_forward(r, inputs, moe_dp_size, activated_experts, nxt)

DPGradScalerOut_forward(r, inputs, moe_dp_size, activated_experts, nxt) ==
    DPGradScaler_forward(r, inputs, moe_dp_size, activated_experts, nxt)

\* grad.mul_(factor) scales in place: the buffer the caller handed in (loc.aux)
\* then holds the scaled gradient, which is also what is returned; with
\* moe_dp_size = activated_experts the gradient is returned untouched
DPGradScalerIn_backward(r, c, grad, nxt) ==
    IF c.moe_dp_size # c.activated_experts
      THEN LET g == Scale(grad, Rat(c.activated_experts, c.moe_dp_size))
           IN /\ ScalerBackward(r, g, nxt)
              /\ loc' = [loc EXCEPT ![r].aux = g]
      ELSE /\ ScalerBackward(r, grad, nxt)
           /\ UNCHANGED loc

DPGradScalerOut_backward(r, c, grad, nxt) ==
    IF c.moe_dp_size # c.activated_experts
      THEN LET g == Scale(grad, Rat(c.moe_dp_size, c.activated_experts))
           IN /\ ScalerBackward(r, g, nxt)
              /\ loc' = [loc EXCEPT ![r].aux = g]
      ELSE /\ ScalerBackward(r, grad, nxt)
           /\ UNCHANGED loc

\* y = EPGradScalerIn.apply(x, ep_size); z = EPGradScalerOut.apply(y, ep_size);
\* the gradient of z comes back through Out's backward, then In's
EPInForward(r) ==
    /\ pc[r] = "EPGradScalerIn.forward"
    /\ EPGradScalerIn_forward(r, x[r], op.ep_size, "EPGradScalerOut.forward")

EPOutForward(r) ==
    /\ pc[r] = "EPGradScalerOut.forward"
    /\ EPGradScalerOut_forward(r, Last(ret[r]), op.ep_size, "EPGradScalerOut.backward")

EPOutBackward(r) ==
    /\ pc[r] = "EPGradScalerOut.backward"
    /\ EPGradScalerOut_backward(r, ctx[r][2], op.grad, "EPGradScalerIn.backward")

EPInBackward(r) ==
    /\ pc[r] = "EPGradScalerIn.backward"
    /\ EPGradScalerIn_backward(r, ctx[r][1], Last(ret[r]), "done")

\* the same chain with DPGradScalerIn and DPGradScalerOut, applied in the order
\* op.first names; the gradient comes back through the second one first
DPChainInput(r) == IF ret[r] = <<>> THEN x[r] ELSE Last(ret[r])

DPChainGrad(r) == IF Len(ret[r]) = 2 THEN op.grad ELSE Last(ret[r])

DPInForward(r) ==
    /\ pc[r] = "DPGradScalerIn.forward"
    /\ DPGradScalerIn_forward(r, DPChainInput(r), op.moe_dp_size, op.activated_experts,
                              IF op.first = "In" THEN "DPGradScalerOut.forward"
                              ELSE "DPGradScalerIn.backward")

DPOutForward(r) ==
    /\ pc[r] = "DPGradScalerOut.forward"
    /\ DPGradScalerOut_forward(r, DPChainInput(r), op.moe_dp_size, op.activated_experts,
                               IF op.first = "Out" THEN "DPGradScalerIn.forward"
                               ELSE "DPGradScalerOut.backward")

DPOutBackward(r) ==
    /\ pc[r] = "DPGradScalerOut.backward"
    /\ DPGradScalerOut_backward(r, ctx[r][IF op.first = "Out" THEN 1 ELSE 2],
                                DPChainGrad(r),
                                IF op.first = "Out" THEN "done"
                                ELSE "DPGradScalerIn.backward")

DPInBackward(r) ==
    /\ pc[r] = "DPGradScalerIn.backward"
    /\ DPGradScalerIn_backward(r, ctx[r][IF op.first = "In" THEN 1 ELSE 2],
                               DPChainGrad(r),
                               IF op.first = "In" THEN "done"
                               ELSE "DPGradScalerOut.backward")

----------------------------------------------------------------------------
(* SpecScaler: one rank runs an In/Out pair of scalers forward, then the     *)
(* gradient back through both.                                               *)

MaxSize == 4
MaxGrad == 2

InitScalerRank(first) ==
    /\ x = [r \in {0} |-> <<Rat(7, 1), Rat(-3, 1)>>]
    /\ net = [g \in {0} |-> <<>>]
    /\ seqno = [r \in {0} |-> [g \in {0} |-> 0]]
    /\ InitRanks(1, first)

InitEP ==
    \E ep_size \in 1..MaxSize, g1 \in (-MaxGrad)..MaxGrad, g2 \in (-MaxGrad)..MaxGrad :
        /\ op = [fn |-> "EPGradScaler", W |-> 1, ep_size |-> ep_size,
                 grad |-> <<Rat(g1, 1), Rat(g2, 1)>>]
        /\ InitScalerRank("EPGradScalerIn.forward")

InitDP ==
    \E moe_dp_size \in 1..MaxSize, activated_experts \in 0..MaxSize,
       g1 \in (-MaxGrad)..MaxGrad, g2 \in (-MaxGrad)..MaxGrad,
       first \in {"In", "Out"} :
        /\ op = [fn |-> "DPGradScaler", W |-> 1, moe_dp_size |-> moe_dp_size,
                 activated_experts |-> activated_experts, first |-> first,
                 grad |-> <<Rat(g1, 1), Rat(g2, 1)>>]
        /\ InitScalerRank(IF first = "In" THEN "DPGradScalerIn.forward"
                          ELSE "DPGradScalerOut.forward")

InitScaler == InitEP \/ InitDP

NextScaler ==
    \/ \E r \in DOMAIN pc : EPInForward(r)
    \/ \E r \in DOMAIN pc : EPOutForward(r)
    \/ \E r \in DOMAIN pc : EPOutBackward(r)
    \/ \E r \in DOMAIN pc : EPInBackward(r)
    \/ \E r \in DOMAIN pc : DPInForward(r)
    \/ \E r \in DOMAIN pc : DPOutForward(r)
    \/ \E r \in DOMAIN pc : DPOutBackward(r)
    \/ \E r \in DOMAIN pc : DPInBackward(r)

SpecScaler == InitScaler /\ [][NextScaler]_vars

----------------------------------------------------------------------------
(* SpecCalls: every rank makes the same sequence of forward calls of one     *)
(* Function with different arguments, then their backward calls in an order  *)
(* of the caller's choice (op.border), the same on every rank.  x[r][i] is   *)
(* the input of rank r's i-th call, whose output also serves as the gradient *)
(* its backward is handed; ctx[r][i] is the context autograd made for it.    *)

MaxCalls == 2
MaxCallRanks == 2

NumCalls == Len(op.calls)

\* Function.apply of the i-th call
ForwardOf(r, i, nxt) ==
    LET a == op.calls[i]
    IN IF op.kind = "AllGather"
         THEN AllGather_forward(r, TRUE, x[r][i], a.group, FALSE, nxt)
       ELSE IF op.kind = "AllToAllUneven"
         THEN /\ AllToAllUneven_forward(r, x[r][i], a.in_sizes[r], a.out_sizes[r],
                                        a.group, FALSE, nxt)
              /\ UNCHANGED <<op, x, err, MOE_KERNEL, loads>>
       ELSE IF op.kind = "EPGradScalerIn"
         THEN EPGradScalerIn_forward(r, x[r][i], a.ep_size, nxt)
       ELSE MoeDispatch_forward(r, x[r][i], a.mask, a.dest_idx, a.ec, nxt)

\* the backward of the Function, given context c and the gradient
BackwardOf(r, c, grad, nxt) ==
    IF op.kind = "AllGather"
      THEN ReduceScatter_forward(r, FALSE, grad, c.comm_grp, FALSE, nxt)
    ELSE IF op.kind = "AllToAllUneven"
      THEN /\ AllToAllUneven_backward(r, c, grad, nxt)
           /\ UNCHANGED <<op, x, err, MOE_KERNEL, loads>>
    ELSE IF op.kind = "EPGradScalerIn"
      THEN EPGradScalerIn_backward(r, c, grad, nxt)
    ELSE MoeDispatch_backward(r, c, grad, nxt)

\* the rank's next forward call
ForwardCall(r) ==
    /\ pc[r] = "calls"
    /\ Len(ctx[r]) < NumCalls
    /\ ForwardOf(r, Len(ctx[r]) + 1, "calls")

\* a backward that is given the context of the latest forward call
BackwardCall_LatestCtx(r) ==
    /\ pc[r] = "calls"
    /\ Len(ctx[r]) = NumCalls
    /\ Len(ret[r]) < 2 * NumCalls
    /\ LET i == op.border[Len(ret[r]) - NumCalls + 1]
       IN BackwardOf(r, Last(ctx[r]), ret[r][i], "calls")

\* the rank's next backward call: autograd hands it the context of its own
\* forward call
BackwardCall(r) ==
    /\ pc[r] = "calls"
    /\ Len(ctx[r]) = NumCalls
    /\ Len(ret[r]) < 2 * NumCalls
    /\ LET i == op.border[Len(ret[r]) - NumCalls + 1]
       IN BackwardOf(r, ctx[r][i], ret[r][i], "calls")

Group(id, W) == [id |-> id, ranks |-> [i \in 1..W |-> i - 1]]

Orders(K) == {p \in [1..K -> 1..K] : \A i, j \in 1..K : p[i] = p[j] => i = j}

InitCallRanks(W) ==
    /\ net = [g \in {0, 1} |-> <<>>]
    /\ seqno = [r \in 0..(W - 1) |-> [g \in {0, 1} |-> 0]]
    /\ InitRanks(W, "calls")

\* AllGather.apply(x, group) on either of two groups over the same ranks
InitCallsAllGather ==
    \E W \in 1..MaxCallRanks, K \in 2..MaxCalls :
      \E gid \in [1..K -> {0, 1}], border \in Orders(K) :
        /\ op = [fn |-> "calls", kind |-> "AllGather", W |-> W, border |-> border,
                 calls |-> [i \in 1..K |-> [group |-> Group(gid[i], W)]]]
        /\ x = [r \in 0..(W - 1) |-> [i \in 1..K |-> <<10 * i + r>>]]
        /\ InitCallRanks(W)

\* AllToAllUneven.apply(x, in_sizes, out_sizes, group): rank r sends rank d
\* (r + d + v) % (MaxSplit + 1) rows in a call of variant v
InitCallsUneven ==
    \E W \in 1..MaxCallRanks, K \in 2..MaxCalls :
      \E gid \in [1..K -> {0, 1}], v \in [1..K -> 0..MaxSplit], border \in Orders(K) :
        /\ op = [fn |-> "calls", kind |-> "AllToAllUneven", W |-> W, border |-> border,
                 calls |-> [i \in 1..K |->
                     [group |-> Group(gid[i], W),
                      in_sizes  |-> [r \in 0..(W - 1) |->
                                      [d \in 1..W |-> (r + d - 1 + v[i]) % (MaxSplit + 1)]],
                      out_sizes |-> [r \in 0..(W - 1) |->
                                      [t \in 1..W |-> (t - 1 + r + v[i]) % (MaxSplit + 1)]]]]]
        /\ x = [r \in 0..(W - 1) |-> [i \in 1..K |->
                  [n \in 1..SumSeq([d \in 1..W |-> (r + d - 1 + v[i]) % (MaxSplit + 1)])
                     |-> <<r, 10 * i + n>>]]]
        /\ InitCallRanks(W)

\* EPGradScalerIn.apply(x, ep_size)
InitCallsScaler ==
    \E K \in 2..MaxCalls :
      \E ep \in [1..K -> 1..MaxSize], border \in Orders(K) :
        /\ op = [fn |-> "calls", kind |-> "EPGradScalerIn", W |-> 1, border |-> border,
                 calls |-> [i \in 1..K |-> [ep_size |-> ep[i]]]]
        /\ x = [r \in {0} |-> [i \in 1..K |-> <<Rat(i, 1), Rat(-2, 1)>>]]
        /\ InitCallRanks(1)

\* MoeDispatch.apply(tokens, mask, dest_idx, ec): two tokens, one expert of
\* capacity 2, each call with its own routing
InitCallsMoe ==
    \E K \in 2..MaxCalls :
      \E assign \in [1..K -> {<<1, 1>>, <<1, 0>>, <<0, 1>>}], border \in Orders(K) :
        /\ op = [fn |-> "calls", kind |-> "MoeDispatch", W |-> 1, border |-> border,
                 calls |-> [i \in 1..K |->
                     [mask |-> RouterMask(assign[i], 1, 2),
                      dest_idx |-> RouterDestIdx(assign[i], 1, 2), ec |-> 2]]]
        /\ x = [r \in {0} |-> [i \in 1..K |->
                  [dtype |-> "float32",
                   rows |-> <<<<100 * i + 1, 100 * i + 2>>, <<100 * i + 3, 100 * i + 4>>>>]]]
        /\ InitCallRanks(1)

InitCalls == InitCallsAllGather \/ InitCallsUneven \/ InitCallsScaler \/ InitCallsMoe

NextCalls ==
    \/ \E r \in DOMAIN pc : ForwardCall(r)
    \/ \E r \in DOMAIN pc : BackwardCall(r)
    \/ \E r \in DOMAIN pc : AllGatherDone(r)
    \/ \E r \in DOMAIN pc : ReduceScatterDone(r)
    \/ \E r \in DOMAIN pc : AllToAllDone(r)

SpecCalls == InitCalls /\ [][NextCalls]_vars

----------------------------------------------------------------------------
(* Claims about the collective primitives (SpecColl). *)

\* C4: equal-shard AllToAll is self-adjoint: when every rank of the group runs
\* AllToAll.forward on its tensor and AllToAll.backward on the result, every
\* rank gets back its original tensor; with world size 1 forward returns its
\* input and no collective is issued.
C4_AllToAllSelfAdjoint ==
    op.fn = "AllToAll" =>
        \A r \in DOMAIN pc :
            /\ pc[r] = "done" => ret[r][2] = x[r]
            /\ op.W = 1 =>
                 /\ issued[r] = <<>>
                 /\ Len(ret[r]) >= 1 => ret[r][1] = x[r]

\* a group of two or more ranks has run forward and backward, and forward
\* moved rows (rank 0 holds a row of rank 1)
C4_Witness ==
    /\ op.fn = "AllToAll"
    /\ op.W >= 2
    /\ AllDone
    /\ \E i \in 1..Len(ret[0][1]) : ret[0][1][i][1] = 1

\* C5: AllGather then ReduceScatter over the same group gives rank r the sum
\* over all W ranks of the r-th gathered chunk, which is W times x_r; with
\* W = 1 it returns x exactly and neither issues a collective.  (With overlap
\* the output is read once its handle has completed.)
C5_ReduceScatterOfAllGather ==
    op.fn = "AllGather" =>
        \A r \in DOMAIN pc :
            /\ (Len(ret[r]) >= 2 /\ handle[r] # "pending") =>
                 /\ ret[r][2] = [j \in 1..Len(x[r]) |-> op.W * x[r][j]]
                 /\ (\A t \in DOMAIN pc : Len(ret[t]) >= 1) =>
                      ret[r][2] = VecSum([t \in 1..op.W |-> ret[t - 1][1][r + 1]])
            /\ op.W = 1 =>
                 /\ issued[r] = <<>>
                 /\ Len(ret[r]) >= 2 => ret[r][2] = x[r]

\* three ranks with different tensors have gathered and reduce-scattered
C5_Witness ==
    /\ op.fn = "AllGather"
    /\ op.W = 3
    /\ x[0] # x[1]
    /\ \A r \in DOMAIN pc : Len(ret[r]) >= 2 /\ handle[r] # "pending"
    /\ ret[1][2] # x[1]

----------------------------------------------------------------------------
(* Claims about the wrappers (SpecWrap). *)

\* C2: gather_tokens on every rank of a tp_group of size > 1 with a
\* gradient-tracked input returns the concatenation along dim of all ranks'
\* inputs in rank order (so the call does not fail); with a group of size 1
\* it returns x unchanged and issues no collective.
C2_GatherTokensConcatenates ==
    op.fn = "gather_tokens" =>
        \A r \in DOMAIN pc :
            /\ (op.W > 1 /\ op.requires_grad[r]) =>
                 /\ err[r] = "none"
                 /\ Len(ret[r]) >= 1 =>
                      ret[r][1] = CatDim([t \in 1..op.W |-> x[t - 1]], op.dim)
            /\ op.W = 1 =>
                 /\ issued[r] = <<>>
                 /\ Len(ret[r]) >= 1 => ret[r][1] = x[r]

\* C3: with split-size lists that agree across ranks and sum to each rank's
\* row count, AllToAllUneven(x, in_sizes, out_sizes) followed on every rank by
\* AllToAllUneven(result, out_sizes, in_sizes) returns the original x.
C3_UnevenRoundTrip ==
    (op.fn = "all_to_all_uneven" /\ \A r \in DOMAIN pc : op.in_sizes[r] # None) =>
        \A r \in DOMAIN pc : Len(ret[r]) >= 2 => ret[r][2] = x[r]

\* three ranks with unequal split sizes have made both calls, and the first
\* call moved rows between ranks
C3_Witness ==
    /\ op.fn = "all_to_all_uneven"
    /\ op.W = 3
    /\ op.in_sizes[0] = <<0, 2, 1>>
    /\ op.in_sizes[1] # op.in_sizes[0]
    /\ \A r \in DOMAIN pc : Len(ret[r]) >= 2
    /\ ret[1][1] # x[1]

\* C6: drop_tokens(gather_tokens(x, dim, group), dim, group) returns, on every
\* rank of every tp_group, that rank's original shard x (so neither call fails
\* on a gradient-tracked input).
C6_DropOfGatherIsShard ==
    op.fn = "gather_tokens" =>
        \A r \in DOMAIN pc :
            op.requires_grad[r] =>
                /\ err[r] = "none"
                /\ Len(ret[r]) >= 2 => ret[r][2] = x[r]

\* C10: all_to_all_uneven, and gather_tokens and drop_tokens on a tp_group of
\* size > 1, fail at once on an input not flagged for gradient tracking, before
\* the rank enters any collective.
C10_UntrackedInputRejected ==
    \A r \in DOMAIN pc :
        (/\ op.fn \in {"all_to_all_uneven", "gather_tokens", "drop_tokens"}
         /\ op.fn = "all_to_all_uneven" \/ op.W > 1
         /\ ~op.requires_grad[r]) =>
            /\ issued[r] = <<>>
            /\ ret[r] = <<>>
            /\ pc[r] # op.fn => (pc[r] = "failed" /\ err[r] = "AssertionError")

\* a rank was rejected for an untracked input while a tracked peer of its
\* group sits in the forward collective
C10_Witness ==
    /\ op.fn = "all_to_all_uneven"
    /\ op.W >= 2
    /\ ~op.requires_grad[0] /\ err[0] = "AssertionError"
    /\ op.requires_grad[1] /\ pc[1] = "dist.all_to_all_single"

----------------------------------------------------------------------------
(* Claims about HierarchicalAllToAll (SpecHier). *)

\* the rows per chunk of an input of W equal chunks
ChunkRows(r) == Len(x[r]) \div op.W

\* C1: on a topology of G nodes of L ranks (global rank g*L + l), when every
\* rank calls HierarchicalAllToAll.forward with G*L equal chunks and its node's
\* designated rank, the output equals a flat all-to-all over the G*L ranks:
\* output chunk i on rank d is input chunk d of rank i.
C1_HierEqualsFlatAllToAll ==
    op.fn = "HierarchicalAllToAll" =>
        \A d \in DOMAIN pc :
            Len(ret[d]) >= 1 =>
                /\ Len(ret[d][1]) = Len(x[d])
                /\ \A i \in DOMAIN pc : \A j \in 1..ChunkRows(d) :
                       ret[d][1][i * ChunkRows(d) + j] = x[i][d * ChunkRows(d) + j]

\* two nodes of two ranks, the second node's designated rank not its first
\* rank, chunks of two rows: every rank has its forward output
C1_Witness ==
    /\ op.fn = "HierarchicalAllToAll"
    /\ op.G = 2 /\ op.L = 2
    /\ op.src_rank[3] = 3
    /\ ChunkRows(0) = 2
    /\ \A r \in DOMAIN pc : Len(ret[r]) >= 1
    /\ ret[3][1][1] = <<0, 7>>

\* C9: HierarchicalAllToAll.backward runs the same hierarchical operation on
\* the gradient with the groups and designated rank its forward recorded (the
\* same collectives in the same order), and forward then backward gives every
\* rank its original tensor back.
C9_HierBackwardInvertsForward ==
    op.fn = "HierarchicalAllToAll" =>
        \A r \in DOMAIN pc :
            pc[r] = "done" =>
                /\ ret[r][2] = x[r]
                /\ Len(issued[r]) % 2 = 0
                /\ \A i \in 1..(Len(issued[r]) \div 2) :
                       issued[r][i] = issued[r][i + Len(issued[r]) \div 2]

\* two nodes of two ranks have run forward and backward, and forward moved
\* rows across the nodes
C9_Witness ==
    /\ op.fn = "HierarchicalAllToAll"
    /\ op.G = 2 /\ op.L = 2
    /\ AllDone
    /\ ret[0][1] # x[0]
    /\ \E i \in 1..Len(ret[0][1]) : ret[0][1][i][1] = 3

----------------------------------------------------------------------------
(* Claims about MoeDispatch and MoeCombine (SpecMoe). *)

Tokens == x[0]

\* C7: Dispatch then Combine with the same mask and dest_idx and logits 1 on
\* every assigned slot reproduces every assigned token row exactly (in the
\* tokens' element type) and yields a zero row for every dropped token; for
\* S=4, E=2, capacity 2 with tokens 0,2 on expert 0 and token 1 on expert 1
\* the dispatch buffer is [tok0, tok2, tok1, zero].
C7_DispatchCombineReproduces ==
    op.fn = "MoeDispatch" =>
        /\ (/\ Len(ret[0]) >= 2
            /\ \A i \in 1..Len(op.mask) : \A e \in 1..op.E :
                   op.mask[i][e] # 0 => op.logits.rows[i][e] = 1) =>
              /\ ret[0][2].dtype = Tokens.dtype
              /\ Len(ret[0][2].rows) = Len(Tokens.rows)
              /\ \A i \in 1..Len(Tokens.rows) :
                     ret[0][2].rows[i] = IF Assigned(op.mask, i) THEN Tokens.rows[i]
                                         ELSE <<0, 0>>
        /\ (Len(ret[0]) >= 1 /\ op.assign = <<1, 2, 1, 0>> /\ op.c = 2 /\ op.E = 2) =>
              ret[0][1].rows = <<Tokens.rows[1], Tokens.rows[3], Tokens.rows[2], <<0, 0>>>>

\* the scenario of four half-precision tokens, one of them dropped, after
\* dispatch and combine with logits 1
C7_Witness ==
    /\ op.fn = "MoeDispatch"
    /\ op.assign = <<1, 2, 1, 0>> /\ op.c = 2 /\ op.E = 2
    /\ Tokens.dtype = "float16"
    /\ op.logits.rows[1] = <<1, 2>>
    /\ Len(ret[0]) >= 2
    /\ ret[0][2].rows[4] = <<0, 0>>
    /\ ret[0][2].rows[3] = <<31, 32>>

----------------------------------------------------------------------------
(* Claims about the gradient scalers (SpecScaler). *)

\* C8: for every ep_size >= 1 a gradient passed through the backward of
\* EPGradScalerOut and then of EPGradScalerIn comes out scaled by 1; likewise
\* for DPGradScalerOut and DPGradScalerIn with the same dp_size >= 1 and
\* activated_experts >= 1; the forward of all four returns its input unchanged.
C8_ScalerPairsComposeToIdentity ==
    (/\ op.fn \in {"EPGradScaler", "DPGradScaler"}
     /\ op.fn = "DPGradScaler" => op.activated_experts >= 1) =>
        /\ \A i \in 1..Len(ret[0]) : i <= 2 => ret[0][i] = x[0]
        /\ pc[0] = "done" => ret[0][4] = op.grad

\* a DP pair with dp_size 4 and 3 activated experts ran both backwards on a
\* non-zero gradient, the first of which rescaled it
C8_Witness ==
    /\ op.fn = "DPGradScaler"
    /\ op.first = "In"
    /\ op.moe_dp_size = 4 /\ op.activated_experts = 3
    /\ op.grad = <<Rat(1, 1), Rat(-2, 1)>>
    /\ pc[0] = "done"
    /\ ret[0][3] = <<Rat(4, 3), Rat(-8, 3)>>

----------------------------------------------------------------------------
(* Further claims about the wrappers (SpecWrap). *)

\* C11: drop_tokens on a tp_group of size N, on an input that passes the
\* wrapper's gradient-tracking check, returns this rank's chunk, the rank-th of
\* N equal contiguous slices of x along dim, when the size of dim is divisible
\* by N, and fails with an AssertionError and no output when it is not.
C11_DropTokensChunkOrFail ==
    op.fn = "drop_tokens" =>
        \A r \in DOMAIN pc :
            (pc[r] # "drop_tokens" /\ (op.W = 1 \/ op.requires_grad[r])) =>
                LET n    == Shape(x[r])[op.dim + 1]
                    size == n \div op.W
                IN IF n % op.W = 0
                     THEN /\ err[r] = "none"
                          /\ Len(ret[r]) >= 1
                          /\ ret[r][1] =
                               IF op.dim = 0
                                 THEN [i \in 1..size |->
                                         [j \in 1..Len(x[r][1]) |-> <<r, r * size + i, j>>]]
                                 ELSE [i \in 1..Len(x[r]) |->
                                         [j \in 1..size |-> <<r, i, r * size + j>>]]
                     ELSE /\ pc[r] = "failed"
                          /\ err[r] = "AssertionError"
                          /\ ret[r] = <<>>

\* rank 1 of two took the second column of a 3 x 2 tensor
C11_Witness ==
    /\ op.fn = "drop_tokens"
    /\ op.W = 2
    /\ op.dim = 1 /\ Shape(x[1]) = <<3, 2>> /\ op.requires_grad[1]
    /\ Len(ret[1]) >= 1
    /\ ret[1][1] = <<<<<<1, 1, 2>>>>, <<<<1, 2, 2>>>>, <<<<1, 3, 2>>>>>>

\* C16: for every AllToAllUneven call the forward output on each rank has
\* exactly sum(output_split_sizes) rows (the input's rows when no list is
\* given), and the backward, which swaps the two lists, returns a gradient with
\* as many rows as the forward input of that call on that rank.
C16_UnevenRowCounts ==
    op.fn = "all_to_all_uneven" =>
        \A r \in DOMAIN pc :
            LET out1 == IF op.out_sizes[r] # None THEN SumSeq(op.out_sizes[r])
                        ELSE Len(x[r])
                out2 == IF op.in_sizes[r] # None THEN SumSeq(op.in_sizes[r])
                        ELSE Len(ret[r][1])
            IN /\ Len(ret[r]) >= 1 => Len(ret[r][1]) = out1
               /\ Len(ret[r]) >= 2 => Len(ret[r][2]) = out2
               /\ Len(ret[r]) >= 3 => Len(ret[r][3]) = Len(ret[r][1])
               /\ Len(ret[r]) >= 4 => Len(ret[r][4]) = Len(x[r])

\* rank 0 of three sent 0, 2 and 1 rows, received another number of rows, and
\* has both backward results
C16_Witness ==
    /\ op.fn = "all_to_all_uneven"
    /\ op.W = 3
    /\ op.in_sizes[0] = <<0, 2, 1>>
    /\ SumSeq(op.out_sizes[0]) # 3
    /\ pc[0] = "done"
    /\ Len(ret[0][1]) = SumSeq(op.out_sizes[0])
    /\ Len(ret[0][4]) = 3

----------------------------------------------------------------------------
(* Further claims about the gradient scalers (SpecScaler). *)

\* C12: DPGradScalerIn and DPGradScalerOut fail in forward whenever
\* activated_experts = 0, for every dp_size, so no backward of a DP scaler runs
\* with activated_experts = 0; for activated_experts # 0 forward succeeds, and
\* backward rescales (In by activated_experts / dp_size, Out by dp_size /
\* activated_experts) only when dp_size # activated_experts.
C12_DPScalerPrecondition ==
    op.fn = "DPGradScaler" =>
        LET a  == op.activated_experts
            dp == op.moe_dp_size
            started == pc[0] # "DPGradScaler" \o op.first \o ".forward"
            \* the backward that runs first is the one of the scaler applied last
            num == IF op.first = "In" THEN dp ELSE a
            den == IF op.first = "In" THEN a ELSE dp
        IN /\ (a = 0 /\ started) =>
                /\ pc[0] = "failed" /\ err[0] = "AssertionError"
                /\ ret[0] = <<>> /\ ctx[0] = <<>>
           /\ a # 0 =>
                /\ err[0] = "none"
                /\ started => Len(ret[0]) >= 1
                /\ Len(ret[0]) >= 3 =>
                     IF dp = a
                       THEN ret[0][3] = op.grad /\ loc[0].aux = 0
                       ELSE /\ \A i \in 1..2 :
                                 ret[0][3][i][1] * den = op.grad[i][1] * num * ret[0][3][i][2]
                            /\ loc[0].aux = Last(ret[0])

\* DPGradScalerOut, applied first with dp_size 3, was refused 0 activated
\* experts
C12_Witness ==
    /\ op.fn = "DPGradScaler"
    /\ op.first = "Out" /\ op.moe_dp_size = 3 /\ op.activated_experts = 0
    /\ pc[0] = "failed" /\ err[0] = "AssertionError"

----------------------------------------------------------------------------
(* Further claims about HierarchicalAllToAll (SpecHier). *)

\* C13: whenever only one inter-group exists (no inter-group handle, or an
\* inter-group of size 1), the designated rank issues no inter-group
\* all-to-all, and the operation consists only of the intra-group gather
\* followed by the intra-group scatter.
C13_SingleInterGroupSkipsAllToAll ==
    op.fn = "HierarchicalAllToAll" =>
        \A r \in DOMAIN pc :
            NumGroup(op.groups[r][2]) = 1 =>
                \A i \in 1..Len(issued[r]) :
                    issued[r][i] = <<IF i % 2 = 1 THEN "gather" ELSE "scatter",
                                     op.groups[r][1].id>>

IsPrefix(s, t) == Len(s) <= Len(t) /\ s = SubSeq(t, 1, Len(s))

Gather(r) == <<"gather", op.groups[r][1].id>>
Scatter(r) == <<"scatter", op.groups[r][1].id>>

\* C14: a rank that is not the designated rank issues, per call, exactly one
\* intra-group gather followed by exactly one intra-group scatter and never an
\* inter-group collective; only the designated rank issues the inter-group
\* all-to-all, and it does so after its gather and before its scatter.
C14_NonDesignatedGatherThenScatter ==
    op.fn = "HierarchicalAllToAll" =>
        \A r \in DOMAIN pc :
            LET one  == <<Gather(r), Scatter(r)>>
                with == <<Gather(r), <<"all_to_all", op.G>>, Scatter(r)>>
            IN /\ r # op.src_rank[r] =>
                    /\ IsPrefix(issued[r], one \o one)
                    /\ pc[r] = "HierarchicalAllToAll.backward" => issued[r] = one
                    /\ pc[r] = "done" => issued[r] = one \o one
               /\ r = op.src_rank[r] =>
                    \/ IsPrefix(issued[r], one \o one)
                    \/ IsPrefix(issued[r], with \o with)
               /\ (r = op.src_rank[r] /\ op.G >= 2 /\ pc[r] = "HierarchicalAllToAll.backward")
                    => issued[r] = with

\* on two nodes of two ranks a non-designated rank has returned from forward
\* after its gather and scatter, and its node's designated rank after gather,
\* inter-node all-to-all and scatter
C14_Witness ==
    /\ op.fn = "HierarchicalAllToAll"
    /\ op.G = 2 /\ op.L = 2
    /\ op.src_rank[0] = 1
    /\ pc[0] = "HierarchicalAllToAll.backward"
    /\ issued[0] = <<<<"gather", 0>>, <<"scatter", 0>>>>
    /\ pc[1] = "HierarchicalAllToAll.backward"
    /\ issued[1] = <<<<"gather", 0>>, <<"all_to_all", 2>>, <<"scatter", 0>>>>

----------------------------------------------------------------------------
(* Claims about the overlap flag (SpecOverlap). *)

\* the pc of a rank inside a torch.distributed collective
DistPcs == {"dist.all_gather", "dist.reduce_scatter", "dist.all_to_all_single"}

\* the forward calls given op.overlap, each named by where its caller goes
\* next, with the number of tensors the rank's caller holds once it returned
OverlapCalls ==
    CASE op.fn = "AllToAll"          -> {<<"AllToAll.backward", 1>>}
      [] op.fn = "AllGather"         -> {<<"ReduceScatter.forward", 1>>,
                                         <<"ReduceScatter.backward", 2>>}
      [] op.fn = "all_to_all_uneven" -> {<<"all_to_all_uneven swapped", 1>>}
      [] OTHER                       -> {}

\* rank r is at the collective of call c, or has just left that call
InCall(r, c) == pc[r] \in DistPcs /\ loc[r].nxt = c[1]
AfterCall(r, c) == pc[r] = c[1]

\* a blocking call: no handle, nothing returned while the rank is in the
\* collective, which every member has entered once the rank is past it
BlockingCall(r, c) ==
    /\ handle[r] = "None"
    /\ InCall(r, c) => Len(ret[r]) = c[2] - 1
    /\ AfterCall(r, c) =>
          /\ Len(ret[r]) = c[2]
          /\ op.W > 1 => \A i \in 1..op.W : net[0][loc[r].k][i] # NoMsg

\* an overlapped call: returned with the buffer and a pending handle while the
\* rank is still at the collective
OverlappedCall(r, c) ==
    /\ Len(ret[r]) = c[2]
    /\ InCall(r, c) => handle[r] = "pending"
    /\ AfterCall(r, c) => handle[r] = "completed"

\* C15 as stated: for AllGather, ReduceScatter, AllToAll and AllToAllUneven a
\* forward call with overlap requested returns a pending-completion handle
\* together with the result buffer, and a forward call without overlap returns
\* only after the collective has completed and returns no handle.
C15_OverlapReturnsHandle ==
    \A r \in DOMAIN pc : \A c \in OverlapCalls :
        (InCall(r, c) \/ AfterCall(r, c)) =>
            IF op.overlap THEN OverlappedCall(r, c) ELSE BlockingCall(r, c)

\* C15, amended: the same, except that AllGather, ReduceScatter and AllToAll
\* on a group of one rank return their result with no handle even when
\* overlap is requested (AllToAllUneven returns a handle on any group).
C15_OverlapReturnsHandleUnlessAlone ==
    \A r \in DOMAIN pc : \A c \in OverlapCalls :
        (InCall(r, c) \/ AfterCall(r, c)) =>
            IF op.overlap /\ (op.W > 1 \/ op.fn = "all_to_all_uneven")
              THEN OverlappedCall(r, c)
              ELSE BlockingCall(r, c)

\* rank 0 of three holds the buffer and a pending handle of an overlapped
\* AllGather that rank 2 has not entered yet
C15_Witness ==
    /\ op.fn = "AllGather" /\ op.W = 3 /\ op.overlap
    /\ pc[0] = "dist.all_gather" /\ handle[0] = "pending" /\ Len(ret[0]) = 1
    /\ pc[2] = "AllGather.forward"

----------------------------------------------------------------------------
(* Claims about several calls in flight (SpecCalls). *)

\* what the i-th forward call of rank r records in its context
RecordedBy(r, i) ==
    LET a == op.calls[i]
    IN CASE op.kind = "AllGather"      -> [comm_grp |-> a.group]
         [] op.kind = "AllToAllUneven" -> [input_split_sizes |-> a.in_sizes[r],
                                           output_split_sizes |-> a.out_sizes[r],
                                           group |-> a.group]
         [] op.kind = "EPGradScalerIn" -> [ep_size |-> a.ep_size]
         [] op.kind = "MoeDispatch"    -> [mask |-> a.mask, dest_idx |-> a.dest_idx,
                                           s |-> 2, h |-> 2, ec |-> a.ec,
                                           dtype |-> "float32"]

\* the collectives (and kernel operations) of the calls of rank r: the forward ones in call order,
\* then the backward ones in the order the backwards are made, each on the
\* group of its own call
CollectivesOf(r) ==
    LET fwd(i) == CASE op.kind = "AllGather" /\ op.W > 1 ->
                          <<<<"all_gather", op.calls[i].group.id>>>>
                    [] op.kind = "AllToAllUneven" ->
                          <<<<"all_to_all", op.calls[i].group.id>>>>
                    [] op.kind = "MoeDispatch" -> <<<<"dispatch_forward", "float32">>>>
                    [] OTHER -> <<>>
        bwd(i) == CASE op.kind = "AllGather" /\ op.W > 1 ->
                          <<<<"reduce_scatter", op.calls[i].group.id>>>>
                    [] op.kind = "AllToAllUneven" ->
                          <<<<"all_to_all", op.calls[i].group.id>>>>
                    [] op.kind = "MoeDispatch" -> <<<<"dispatch_backward", "float32">>>>
                    [] OTHER -> <<>>
    IN Cat([i \in 1..NumCalls |-> fwd(i)]) \o Cat([j \in 1..NumCalls |-> bwd(op.border[j])])

\* what the backward of rank r's i-th call returns, given that call's output
\* as the gradient, when it works with what that call recorded
BackwardResult(r, i) ==
    CASE op.kind = "AllGather"      -> [j \in 1..Len(x[r][i]) |-> op.W * x[r][i][j]]
      [] op.kind = "AllToAllUneven" -> x[r][i]
      [] op.kind = "EPGradScalerIn" ->
             [k \in 1..2 |-> <<x[r][i][k][1] * op.calls[i].ep_size, 1>>]
      [] op.kind = "MoeDispatch"    ->
             [dtype |-> "float32",
              rows |-> [k \in 1..2 |-> IF op.calls[i].mask[k][1] # 0
                                         THEN x[r][i].rows[k] ELSE <<0, 0>>]]

\* every backward works with the context of its own forward call
OwnContext ==
    \A r \in DOMAIN pc :
        /\ \A i \in 1..Len(ctx[r]) : ctx[r][i] = RecordedBy(r, i)
        /\ IsPrefix(issued[r], CollectivesOf(r))
        /\ \A j \in 1..(Len(ret[r]) - NumCalls) :
               ret[r][NumCalls + j] = BackwardResult(r, op.border[j])

----------------------------------------------------------------------------
(* Claims about the kernel provider (SpecKernel, SpecMoe). *)

\* C18: over any sequence of MoeDispatch, MoeCombine and moe_cumsum forward
\* calls and their paired backward calls, the kernel provider is loaded at
\* most once, and it is loaded before any kernel operation is invoked,
\* including the backward calls, which use the kernel without checking it (no
\* call finds MOE_KERNEL to be None).
C18_KernelLoadedOnceBeforeUse ==
    op.fn = "kernel" =>
        /\ loads <= 1
        /\ (MOE_KERNEL = "kernel") = (loads = 1)
        /\ err[0] = "none"
        /\ ctx[0] # <<>> => MOE_KERNEL = "kernel"

\* a moe_cumsum that took the torch path, then a MoeDispatch and a MoeCombine
\* forward and the backward of each: one load
C18_Witness ==
    /\ op.fn = "kernel"
    /\ Len(ret[0]) = 6
    /\ ret[0][1] = [dim0 |-> 2050, rows |-> <<0, 0, 1>>]
    /\ Len(ctx[0]) = 2
    /\ "ec" \in DOMAIN ctx[0][1] /\ "e" \in DOMAIN ctx[0][2]
    /\ loads = 1

\* C19: for every input element type, every payload passed to a
\* dispatch/combine kernel operation, forward and backward, is float32, and
\* every token-shaped result returned to the caller (dispatch output, combine
\* output, combine expert-token gradient, dispatch token gradient) has the
\* element type of the caller's forward input; MoeCombine.forward fails, before
\* it invokes the kernel, if logits are not float32.
C19_WideKernelNarrowCaller ==
    op.fn = "MoeDispatch" =>
        /\ \A k \in 1..Len(issued[0]) : \A p \in 2..Len(issued[0][k]) :
               issued[0][k][p] = "float32"
        /\ \A k \in {1, 2, 3, 5} : Len(ret[0]) >= k => ret[0][k].dtype = Tokens.dtype
        /\ (op.logits.dtype # "float32"
              /\ pc[0] \notin {"MoeDispatch.forward", "MoeCombine.forward"}) =>
               /\ pc[0] = "failed" /\ err[0] = "AssertionError"
               /\ Len(ret[0]) = 1
               /\ issued[0] = <<<<"dispatch_forward", "float32">>>>
        /\ op.logits.dtype = "float32" => err[0] = "none"

\* bfloat16 tokens went through dispatch, combine and both backwards
C19_Witness ==
    /\ op.fn = "MoeDispatch"
    /\ Tokens.dtype = "bfloat16"
    /\ pc[0] = "done"
    /\ Len(issued[0]) = 4
    /\ issued[0][3] = <<"combine_backward", "float32", "float32", "float32">>
    /\ ret[0][5].dtype = "bfloat16"

----------------------------------------------------------------------------
(* Termination of HierarchicalAllToAll (SpecHierFair) *)

\* forward has returned to rank r
HierReturned(r) == Len(ret[r]) >= 1

\* C20: when every rank of a two-level topology calls HierarchicalAllToAll with
\* its own intra-group's single designated rank, every rank eventually returns
\* from forward: no rank blocks forever in the gather, the inter-node
\* all-to-all or the scatter.
C20_HierEventuallyReturns == <>(\A r \in DOMAIN pc : HierReturned(r))

\* two nodes of two ranks, the designated ranks 1 and 2: all four ranks have
\* returned, the designated ones through gather, all-to-all and scatter
C20_Witness ==
    /\ op.G = 2 /\ op.L = 2
    /\ op.src_rank = [r \in 0..3 |-> IF r < 2 THEN 1 ELSE 2]
    /\ \A r \in 0..3 : HierReturned(r) /\ pc[r] = "HierarchicalAllToAll.backward"
    /\ issued[1] = <<<<"gather", 0>>, <<"all_to_all", 2>>, <<"scatter", 0>>>>
    /\ issued[3] = <<<<"gather", 1>>, <<"scatter", 1>>>>

====
